---------------------------- MODULE Spec2Model ----------------------------
(***************************************************************************)
(* A model of cgg (collectd-graph-generator): the locator resolver, the   *)
(* graph argument accumulator, the processes and memory plugins, the      *)
(* command compiler and the local / remote execution engine.              *)
(*                                                                         *)
(* Strings.  A Rust String is modelled as a sequence of tokens.  A token   *)
(* is either one significant character ("@", ":", ".", "/", " ", "_", "=", *)
(* the double quote, a decimal digit, a line feed) or a run of other       *)
(* characters that the program never looks into ("rrdtool", "png").  The   *)
(* same run is always written as the same token, so equality of token      *)
(* sequences is equality of the strings.  Option<T> is a sequence of       *)
(* length at most one.                                                     *)
(***************************************************************************)
EXTENDS Integers, Sequences, FiniteSets, TLC

VARIABLES
    cfg,        \* the resolved configuration handed to the run (read-only)
    env,        \* the world outside: directory listings, existing files
    rrd,        \* the Rrdtool struct
    pc,         \* position of the run
    plugin_i,   \* number of plugins with_plugins has entered so far
    commands,   \* exec: the compiled commands (build_rrdtool_args)
    index,      \* exec: number of commands completed so far
    executed,   \* log of external processes started, in order
    files,      \* local output files present, with the slot they show
    scratch,    \* content of the remote scratch file (Option<slot>)
    result,     \* outcome of the run: "none", "Ok", "Err", "Panic"
    exit_code,  \* exit status of the process, -1 while it runs
    hist,       \* history: the calls made so far and snapshots for the properties
    ret         \* value returned by the function called last

vars == <<cfg, env, rrd, pc, plugin_i, commands, index, executed, files,
          scratch, result, exit_code, hist, ret>>

---------------------------------------------------------------------------
(* Option, strings and numbers *)

None == <<>>

Some(x) == <<x>>

is_some(o) == Len(o) = 1

unwrap(o) == o[1]

QUOTE == "\""

LF == "\n"

is_none(o) == Len(o) = 0

\* What a function that may panic yields: Done(v) where it returns v,
\* Panicked where it panics.
Done(v) == <<v>>

Panicked == <<>>

panicked(r) == Len(r) = 0

value(r) == r[1]

Digits == <<"0", "1", "2", "3", "4", "5", "6", "7", "8", "9">>

RECURSIVE to_string(_)
\* <integer>.to_string(): the decimal digits, most significant first.
to_string(n) ==
    IF n < 10 THEN <<Digits[n + 1]>>
    ELSE to_string(n \div 10) \o <<Digits[(n % 10) + 1]>>

RECURSIVE Concat(_)
\* The concatenation of a sequence of strings.
Concat(ss) == IF Len(ss) = 0 THEN <<>> ELSE Head(ss) \o Concat(Tail(ss))

\* s.insert_str(at, x): x inserted so that it starts at 0-based offset at.
insert_str(s, at, x) == SubSeq(s, 1, at) \o x \o SubSeq(s, at + 1, Len(s))

\* s.rfind(pat) for a one-character pattern: Option<0-based offset of the last one>.
rfind(s, pat) ==
    LET hits == {i \in 1..Len(s) : s[i] = pat}
    IN  IF hits = {} THEN None
        ELSE Some((CHOOSE i \in hits : \A k \in hits : k <= i) - 1)

\* Path::join(base, name) for a relative name: one separator is put between
\* the two unless base is empty or already ends with one.
path_join(base, name) ==
    IF Len(base) = 0 \/ base[Len(base)] = "/" THEN base \o name
    ELSE base \o <<"/">> \o name

---------------------------------------------------------------------------
(* Locator resolver *)

Local == "Local"

Remote == "Remote"

\* The regex class '.': any character but a line feed.
Dot(c) == c # LF

AllDot(s, from, to) == \A k \in from..to : Dot(s[k])

\* s[p..e] matches .*@.*:.* with the '@' at i and the ':' at j.
MatchAt(s, p, i, j, e) ==
    /\ 1 <= p /\ p <= i /\ i < j /\ j <= e /\ e <= Len(s)
    /\ s[i] = "@" /\ s[j] = ":"
    /\ AllDot(s, p, i - 1) /\ AllDot(s, i + 1, j - 1) /\ AllDot(s, j + 1, e)

\* Regex::new(".*@.*:.*").is_match(s): unanchored search.
is_match(s) ==
    \E p \in 1..Len(s), i \in 1..Len(s), j \in 1..Len(s), e \in 1..Len(s) :
        MatchAt(s, p, i, j, e)

Max(S) == CHOOSE x \in S : \A y \in S : y <= x

Min(S) == CHOOSE x \in S : \A y \in S : x <= y

\* Regex::new("(.*)@(.*):(.*)").captures(s): the leftmost match, every .*
\* greedy in turn: the first group runs to the last '@' that still has a ':'
\* after it, the second to the last ':' after that '@'.
captures(s) ==
    LET L  == 1..Len(s)
        p  == Min({q \in L : \E i \in L, j \in L, e \in L : MatchAt(s, q, i, j, e)})
        i  == Max({a \in L : \E j \in L, e \in L : MatchAt(s, p, a, j, e)})
        j  == Max({b \in L : \E e \in L : MatchAt(s, p, i, b, e)})
        e  == Max({c \in L : MatchAt(s, p, i, j, c)})
    IN  <<SubSeq(s, p, i - 1), SubSeq(s, i + 1, j - 1), SubSeq(s, j + 1, e)>>

\* Rrdtool::parse_input_path: (target, path, username, hostname).
parse_input_path(input_dir) ==
    IF is_match(input_dir)
    THEN LET c == captures(input_dir)
         IN  [target |-> Remote, path |-> c[3],
              username |-> Some(c[1]), hostname |-> Some(c[2])]
    ELSE [target |-> Local, path |-> input_dir, username |-> None, hostname |-> None]


---------------------------------------------------------------------------
(* Colour palette *)

\* Rrdtool::COLORS, each colour written '#' then its six hex digits.
COLORS ==
    << <<"#", "e6194b">>, <<"#", "3cb44b">>, <<"#", "ffe119">>, <<"#", "4363d8">>,
       <<"#", "f58231">>, <<"#", "911eb4">>, <<"#", "46f0f0">>, <<"#", "f032e6">>,
       <<"#", "bcf60c">>, <<"#", "fabebe">>, <<"#", "008080">>, <<"#", "e6beff">>,
       <<"#", "9a6324">>, <<"#", "800000">>, <<"#", "aaffc3">>, <<"#", "808000">>,
       <<"#", "ffd8b1">>, <<"#", "000075">>, <<"#", "808080">>, <<"#", "000000">> >>

---------------------------------------------------------------------------
(* Graph argument accumulator: [target, args], args a sequence of slots *)

\* GraphArguments::new
GraphArguments_new(target) == [target |-> target, args |-> <<>>]

\* A mutant of new_graph that puts the new slot in front of the others.
new_graph_at_front(self) == [self EXCEPT !.args = << <<>> >> \o @]

\* GraphArguments::new_graph
new_graph(self) == [self EXCEPT !.args = Append(@, <<>>)]

is_whitespace(c) == c \in {" ", LF, "\t"}

\* A mutant of the first word that is the whole legend name.
first_word_whole_name(s) ==
    IF \A i \in 1..Len(s) : is_whitespace(s[i]) THEN None ELSE Some(s)

\* legend_name.split_whitespace().next(): Option<the first run of
\* characters that are not white space>.
first_word(s) ==
    LET starts == {i \in 1..Len(s) : ~is_whitespace(s[i])}
    IN  IF starts = {} THEN None
        ELSE LET b    == Min(starts)
                 ends == {i \in b..Len(s) :
                             /\ \A k \in b..i : ~is_whitespace(s[k])
                             /\ (i = Len(s) \/ is_whitespace(s[i + 1]))}
             IN  Some(SubSeq(s, b, Min(ends)))

\* A mutant of build_graph_def that quotes the path on no target.
build_graph_def_unquoted(self, unique_name, path) ==
    <<"DEF", ":">> \o unique_name \o <<"=">> \o path \o <<":", "value", ":", "AVERAGE">>

\* A mutant of build_graph_def that quotes the path on every target.
build_graph_def_always_quoted(self, unique_name, path) ==
    <<"DEF", ":">> \o unique_name \o <<"=", QUOTE>> \o path
        \o <<QUOTE, ":", "value", ":", "AVERAGE">>

\* GraphArguments::build_graph_def
build_graph_def(self, unique_name, path) ==
    <<"DEF", ":">> \o unique_name \o <<"=">>
        \o (IF self.target = Local THEN <<>> ELSE <<QUOTE>>)
        \o path
        \o (IF self.target = Local THEN <<>> ELSE <<QUOTE>>)
        \o <<":", "value", ":", "AVERAGE">>

\* GraphArguments::build_graph_line
build_graph_line(self, unique_name, legend_name, color, thickness) ==
    <<"LINE">> \o to_string(thickness) \o <<":">> \o unique_name \o color
        \o <<":", QUOTE>> \o legend_name \o <<QUOTE>>

\* A mutant of push that starts a slot of its own for every series.
push_in_new_slot(self, legend_name, color, thickness, path) ==
    LET w == first_word(legend_name)
    IN  IF is_none(w) THEN Panicked
        ELSE Done([self EXCEPT !.args = Append(@,
                 <<build_graph_def(self, unwrap(w), path),
                   build_graph_line(self, unwrap(w), legend_name, color, thickness)>>)])

\* GraphArguments::push: panics where the legend name holds no word.
push(self, legend_name, color, thickness, path) ==
    LET w == first_word(legend_name)
    IN  IF is_none(w) THEN Panicked
        ELSE LET def  == build_graph_def(self, unwrap(w), path)
                 line == build_graph_line(self, unwrap(w), legend_name, color, thickness)
                 a    == IF Len(self.args) = 0 THEN << <<>> >> ELSE self.args
             IN  Done([self EXCEPT !.args = [a EXCEPT ![Len(a)] = @ \o <<def, line>>]])

---------------------------------------------------------------------------
(* Command compiler *)

\* A mutant of get_output_filename that numbers the files from 0.
get_output_filename_from_zero(self, i) ==
    IF Len(self.graph_args.args) = 1 THEN Done(self.output_filename)
    ELSE LET at == rfind(self.output_filename, ".")
         IN  IF is_none(at) THEN Panicked
             ELSE Done(insert_str(self.output_filename, unwrap(at),
                                  <<"_">> \o to_string(i)))

\* Rrdtool::get_output_filename: panics where the accumulator does not hold
\* exactly one slot and the file name holds no '.'.
get_output_filename(self, i) ==
    IF Len(self.graph_args.args) = 1 THEN Done(self.output_filename)
    ELSE LET at == rfind(self.output_filename, ".")
         IN  IF is_none(at) THEN Panicked
             ELSE Done(insert_str(self.output_filename, unwrap(at),
                                  <<"_">> \o to_string(i + 1)))

\* A mutant of the compiler that writes the caller's file name into the
\* command on either target.
build_command_callers_name(self, i) ==
    LET output_filename == get_output_filename(self, i)
    IN  IF panicked(output_filename) THEN Panicked
        ELSE IF self.target = Remote /\ is_none(self.remote_filename) THEN Panicked
        ELSE Done(<<self.subcommand, value(output_filename)>>
                  \o self.common_args
                  \o self.graph_args.args[i + 1])

\* A mutant of the compiler that gives every command the strings of all
\* slots.
build_command_all_slots(self, i) ==
    LET output_filename == get_output_filename(self, i)
    IN  IF panicked(output_filename) THEN Panicked
        ELSE IF self.target = Remote /\ is_none(self.remote_filename) THEN Panicked
        ELSE Done(<<self.subcommand,
                    IF self.target = Local THEN value(output_filename)
                    ELSE unwrap(self.remote_filename)>>
                  \o self.common_args
                  \o Concat(self.graph_args.args))

\* The command build_rrdtool_args compiles for slot i (0-based).
build_command(self, i) ==
    LET output_filename == get_output_filename(self, i)
    IN  IF panicked(output_filename) THEN Panicked
        ELSE IF self.target = Remote /\ is_none(self.remote_filename) THEN Panicked
        ELSE Done(<<self.subcommand,
                    IF self.target = Local THEN value(output_filename)
                    ELSE unwrap(self.remote_filename)>>
                  \o self.common_args
                  \o self.graph_args.args[i + 1])

\* A mutant of build_rrdtool_args that stops one slot short.
build_rrdtool_args_one_short(self) ==
    LET n == Max({Len(self.graph_args.args) - 1, 0})
    IN  IF \E i \in 0..(n - 1) : panicked(build_command(self, i)) THEN Panicked
        ELSE Done([k \in 1..n |-> value(build_command(self, k - 1))])

\* Rrdtool::build_rrdtool_args: one command per slot, in slot order.
build_rrdtool_args(self) ==
    LET n == Len(self.graph_args.args)
    IN  IF \E i \in 0..(n - 1) : panicked(build_command(self, i)) THEN Panicked
        ELSE Done([k \in 1..n |-> value(build_command(self, k - 1))])

---------------------------------------------------------------------------
(* Results of fallible functions: Ok(v) and Err, as Option *)

Ok(v) == <<v>>

Err == <<>>

is_err(r) == Len(r) = 0

\* What a plugin leaves behind: how it ended ("Ok", "Err" or "Panic"), the
\* Rrdtool struct its caller goes on with (the struct as entered where the
\* plugin panics: nothing reads it again) and the processes it started.
Outcome(status, self, procs) == [status |-> status, self |-> self, procs |-> procs]

\* user@host, as exec_remote and remote::ls write it.
network_address(self) == unwrap(self.username) \o <<"@">> \o unwrap(self.hostname)

\* The ssh process remote::ls starts to list dir.
ls_process(self, dir, ok) ==
    [kind |-> "ls", prog |-> "ssh", args |-> <<network_address(self), <<"ls">>, dir>>,
     status |-> IF ok THEN "success" ELSE "failure", slot |-> -1]

---------------------------------------------------------------------------
(* Processes plugin *)

\* str::strip_prefix
strip_prefix(s, prefix) ==
    IF Len(s) >= Len(prefix) /\ SubSeq(s, 1, Len(prefix)) = prefix
    THEN Some(SubSeq(s, Len(prefix) + 1, Len(s)))
    ELSE None

RECURSIVE filter_map_strip(_)
\* entries.filter_map(|e| e.strip_prefix("processes-")), in listing order.
filter_map_strip(entries) ==
    IF Len(entries) = 0 THEN <<>>
    ELSE LET r == strip_prefix(Head(entries), <<"processes-">>)
         IN  (IF is_some(r) THEN <<unwrap(r)>> ELSE <<>>)
                 \o filter_map_strip(Tail(entries))

\* Rrdtool::get_processes_names_from_directory: read_dir locally, ssh ls
\* remotely; Err where the directory cannot be listed.
get_processes_names_from_directory(self, world) ==
    IF world.dir_ok THEN Ok(filter_map_strip(world.entries)) ELSE Err

\* A mutant of Vec::contains that takes an entry x begins with for x.
contains_prefix(list, x) == \E k \in 1..Len(list) : is_some(strip_prefix(x, list[k]))

\* Vec::contains
contains(list, x) == \E k \in 1..Len(list) : list[k] = x

\* A mutant of filter_processes that ignores the allow-list.
filter_processes_keeps_all(processes, processes_to_draw) == processes

\* Rrdtool::filter_processes
filter_processes(processes, processes_to_draw) ==
    IF is_none(processes_to_draw) THEN processes
    ELSE LET keep(process) == contains(unwrap(processes_to_draw), process)
         IN  SelectSeq(processes, keep)

\* Rrdtool::with_process_rss
with_process_rss(self, input_dir, process, color, graph_args_no) ==
    LET path == path_join(path_join(input_dir, <<"processes-">> \o process),
                          <<"ps_rss", ".", "rrd">>)
        ga   == IF Len(self.graph_args.args) <= graph_args_no
                THEN new_graph(self.graph_args)
                ELSE self.graph_args
        r    == push(ga, process, color, 3, path)
    IN  IF panicked(r) THEN Panicked
        ELSE Done([self EXCEPT !.graph_args = value(r)])

\* ceil(len as f64 / max_processes as f64) as u32, for max_processes >= 1.
loops_of(len, max_processes) == (len + max_processes - 1) \div max_processes

RECURSIVE draw_slice(_, _, _, _)
\* The inner loop of enter_plugin: the processes of one slice, colour
\* counting up from the given index.
draw_slice(self, slice, i, color) ==
    IF Len(slice) = 0 THEN Done(self)
    ELSE IF color >= Len(COLORS) THEN Panicked
    ELSE LET r == with_process_rss(self, self.input_dir, Head(slice),
                                   COLORS[color + 1], i)
         IN  IF panicked(r) THEN Panicked
             ELSE draw_slice(value(r), Tail(slice), i, color + 1)

RECURSIVE draw_loops_colours_run_on(_, _, _, _, _)
\* A mutant of the outer loop that does not start the colours again for a
\* new slice.
draw_loops_colours_run_on(self, processes, max_processes, i, loops) ==
    IF i >= loops THEN Done(self)
    ELSE LET lower == i * max_processes
             a     == (i + 1) * max_processes
             upper == IF a < Len(processes) THEN a ELSE Len(processes)
             r     == draw_slice(self, SubSeq(processes, lower + 1, upper), i, lower)
         IN  IF panicked(r) THEN Panicked
             ELSE draw_loops_colours_run_on(value(r), processes, max_processes,
                                            i + 1, loops)

RECURSIVE draw_loops(_, _, _, _, _)
\* The outer loop of enter_plugin, from iteration i on.
draw_loops(self, processes, max_processes, i, loops) ==
    IF i >= loops THEN Done(self)
    ELSE LET lower == i * max_processes
             a     == (i + 1) * max_processes
             upper == IF a < Len(processes) THEN a ELSE Len(processes)
             r     == draw_slice(self, SubSeq(processes, lower + 1, upper), i, 0)
         IN  IF panicked(r) THEN Panicked
             ELSE draw_loops(value(r), processes, max_processes, i + 1, loops)

\* A mutant of the processes plugin whose palette check lets a number of
\* processes equal to the palette size through.
enter_plugin_processes_off_by_one(self, data, world) ==
    LET names == get_processes_names_from_directory(self, world)
        procs == IF self.target = Remote
                 THEN <<ls_process(self, self.input_dir, world.dir_ok)>> ELSE <<>>
    IN  IF is_err(names) THEN Outcome("Err", self, procs)
        ELSE IF Len(value(names)) = 0 THEN Outcome("Err", self, procs)
        ELSE LET processes == filter_processes(value(names), data.processes_to_draw)
             IN  IF ~(Len(processes) <= Len(COLORS)) THEN Outcome("Panic", self, procs)
                 ELSE LET r == IF data.max_processes = 0 THEN Done(self)
                               ELSE draw_loops(self, processes, data.max_processes, 0,
                                               loops_of(Len(processes), data.max_processes))
                      IN  IF panicked(r) THEN Outcome("Panic", self, procs)
                          ELSE Outcome("Ok", value(r), procs)

\* A mutant of the processes plugin that looks for an empty list after the
\* allow-list is applied, not before.
enter_plugin_processes_empty_after_filter(self, data, world) ==
    LET names == get_processes_names_from_directory(self, world)
        procs == IF self.target = Remote
                 THEN <<ls_process(self, self.input_dir, world.dir_ok)>> ELSE <<>>
    IN  IF is_err(names) THEN Outcome("Err", self, procs)
        ELSE LET processes == filter_processes(value(names), data.processes_to_draw)
             IN  IF Len(processes) = 0 THEN Outcome("Err", self, procs)
                 ELSE IF ~(Len(processes) < Len(COLORS)) THEN Outcome("Panic", self, procs)
                 ELSE LET r == IF data.max_processes = 0 THEN Done(self)
                               ELSE draw_loops(self, processes, data.max_processes, 0,
                                               loops_of(Len(processes), data.max_processes))
                      IN  IF panicked(r) THEN Outcome("Panic", self, procs)
                          ELSE Outcome("Ok", value(r), procs)

\* Plugin<&ProcessesData>::enter_plugin
enter_plugin_processes(self, data, world) ==
    LET names == get_processes_names_from_directory(self, world)
        procs == IF self.target = Remote
                 THEN <<ls_process(self, self.input_dir, world.dir_ok)>> ELSE <<>>
    IN  IF is_err(names) THEN Outcome("Err", self, procs)
        ELSE IF Len(value(names)) = 0 THEN Outcome("Err", self, procs)
        ELSE LET processes == filter_processes(value(names), data.processes_to_draw)
             IN  IF ~(Len(processes) < Len(COLORS)) THEN Outcome("Panic", self, procs)
                 ELSE LET len   == Len(processes)
                          loops == IF data.max_processes = 0 THEN 0
                                   ELSE loops_of(len, data.max_processes)
                          \* max_processes = 0: the quotient is infinite (NaN
                          \* for len = 0) and its cast gives u32::MAX (0)
                          \* iterations, every one over processes[0..0],
                          \* the empty slice: nothing is drawn.
                          r == IF data.max_processes = 0 THEN Done(self)
                               ELSE draw_loops(self, processes, data.max_processes,
                                               0, loops)
                      IN  IF panicked(r) THEN Outcome("Panic", self, procs)
                          ELSE Outcome("Ok", value(r), procs)

---------------------------------------------------------------------------
(* Memory plugin *)

MemoryType == {"Buffered", "Cached", "Free", "SlabRecl", "SlabUnrecl", "Used"}

\* The name both to_string and to_filename are built around.
memory_word(t) ==
    CASE t = "Buffered"   -> "buffered"
      [] t = "Cached"     -> "cached"
      [] t = "Free"       -> "free"
      [] t = "SlabRecl"   -> "slab_recl"
      [] t = "SlabUnrecl" -> "slab_unrecl"
      [] t = "Used"       -> "used"

\* impl ToString for MemoryType
memory_to_string(t) == <<memory_word(t)>>

\* MemoryType::to_filename
to_filename(t) == <<"memory-", memory_word(t), ".", "rrd">>

\* verify_data_files_exist (local: Path::exists of every file; remote: the
\* listing of the memory directory holds every file name).
verify_data_files_exist(self, memory_types, world) ==
    /\ self.target = Remote => world.mem_ls_ok
    /\ \A k \in 1..Len(memory_types) : to_filename(memory_types[k]) \in world.memfiles

RECURSIVE push_memory_one_colour(_, _, _, _)
\* A mutant of the loop of the memory plugin that draws every category in
\* the first colour.
push_memory_one_colour(ga, memory_dir, memory_types, i) ==
    IF i >= Len(memory_types) THEN Done(ga)
    ELSE LET r == push(ga, memory_to_string(memory_types[i + 1]), COLORS[1], 5,
                       path_join(memory_dir, to_filename(memory_types[i + 1])))
         IN  IF panicked(r) THEN Panicked
             ELSE push_memory_one_colour(value(r), memory_dir, memory_types, i + 1)

RECURSIVE push_memory(_, _, _, _)
\* The loop of the memory plugin, from index i (0-based) on.
push_memory(ga, memory_dir, memory_types, i) ==
    IF i >= Len(memory_types) THEN Done(ga)
    ELSE IF i >= Len(COLORS) THEN Panicked
    ELSE LET r == push(ga, memory_to_string(memory_types[i + 1]), COLORS[i + 1], 5,
                       path_join(memory_dir, to_filename(memory_types[i + 1])))
         IN  IF panicked(r) THEN Panicked
             ELSE push_memory(value(r), memory_dir, memory_types, i + 1)

\* A mutant of the memory plugin that starts the slot before it verifies
\* the files.
enter_plugin_memory_slot_first(self, data, world) ==
    LET memory_dir == path_join(self.input_dir, <<"memory">>)
        procs == IF self.target = Remote
                 THEN <<ls_process(self, memory_dir, world.mem_ls_ok)>> ELSE <<>>
        fresh == [self EXCEPT !.graph_args = new_graph(@)]
    IN  IF ~verify_data_files_exist(self, data.memory_types, world)
        THEN Outcome("Err", fresh, procs)
        ELSE LET r == push_memory(fresh.graph_args, memory_dir, data.memory_types, 0)
             IN  IF panicked(r) THEN Outcome("Panic", self, procs)
                 ELSE Outcome("Ok", [self EXCEPT !.graph_args = value(r)], procs)

\* Plugin<&MemoryData>::enter_plugin
enter_plugin_memory(self, data, world) ==
    LET memory_dir == path_join(self.input_dir, <<"memory">>)
        procs == IF self.target = Remote
                 THEN <<ls_process(self, memory_dir, world.mem_ls_ok)>> ELSE <<>>
    IN  IF ~verify_data_files_exist(self, data.memory_types, world)
        THEN Outcome("Err", self, procs)
        ELSE LET r == push_memory(new_graph(self.graph_args), memory_dir,
                                  data.memory_types, 0)
             IN  IF panicked(r) THEN Outcome("Panic", self, procs)
                 ELSE Outcome("Ok", [self EXCEPT !.graph_args = value(r)], procs)

---------------------------------------------------------------------------
(* The builder *)

\* Rrdtool::new
Rrdtool_new(input_dir) ==
    LET r == parse_input_path(input_dir)
    IN  [target          |-> r.target,
         input_dir       |-> r.path,
         command         |-> <<"rrdtool">>,
         subcommand      |-> <<>>,
         output_filename |-> <<>>,
         common_args     |-> <<>>,
         graph_args      |-> GraphArguments_new(r.target),
         username        |-> r.username,
         hostname        |-> r.hostname,
         remote_filename |-> None]

\* Rrdtool::with_subcommand
with_subcommand(self, subcommand) == [self EXCEPT !.subcommand = subcommand]

\* Rrdtool::with_output_file
with_output_file(self, output) ==
    IF self.target = Local THEN [self EXCEPT !.output_filename = output]
    ELSE [self EXCEPT !.remote_filename = Some(<<"/", "tmp", "/", "cgg-out", ".", "png">>),
                      !.output_filename = output]

\* Rrdtool::with_width, with_height, with_start, with_end: the flag, then
\* the number in decimal.
with_number(self, flag, n) ==
    [self EXCEPT !.common_args = @ \o <<flag, to_string(n)>>]

\* The builder chain of run up to with_plugins, on the given locator.
run_builder(config, input_dir) ==
    with_number(
        with_number(
            with_number(
                with_number(
                    with_output_file(with_subcommand(Rrdtool_new(input_dir), <<"graph">>),
                                     config.output),
                    <<"--start">>, config.start),
                <<"--end">>, config.end),
            <<"-w">>, config.width),
        <<"-h">>, config.height)

\* Rrdtool::with_plugins from its k-th plugin on: the outcome of the first
\* plugin that fails, or Ok with what the plugins have made of self.
RECURSIVE with_plugins(_, _, _, _)
with_plugins(self, config, world, k) ==
    IF k > Len(config.plugins) THEN Outcome("Ok", self, <<>>)
    ELSE LET data == IF config.plugins[k] = "Processes" THEN config.processes
                     ELSE config.memory
             out  == IF is_none(data) THEN Outcome("Panic", self, <<>>)
                     ELSE IF config.plugins[k] = "Processes"
                     THEN enter_plugin_processes(self, unwrap(data), world)
                     ELSE enter_plugin_memory(self, unwrap(data), world)
         IN  IF out.status = "Ok" THEN with_plugins(out.self, config, world, k + 1)
             ELSE out

---------------------------------------------------------------------------
(* The run: main, lib::run and Rrdtool::exec as a state machine *)

\* A mutant of the exit status that reports an error of the run as success.
exit_status_ignores_err(res) ==
    CASE res = "Ok"    -> 0
      [] res = "Err"   -> 0
      [] res = "Panic" -> 101

\* The exit status main hands to std::process::exit for the result of the
\* run; a panic ends the process with status 101.
exit_status(res) ==
    CASE res = "Ok"    -> 0
      [] res = "Err"   -> 1
      [] res = "Panic" -> 101

\* The state in which the run has ended with the given result.
Ended(res) ==
    /\ result' = res
    /\ pc' = "ended"

\* main, where Config::new fails: the error is printed and the process exits.
ConfigError ==
    /\ pc = "main"
    /\ ~cfg.config_ok
    /\ exit_code' = 1
    /\ pc' = "exited"
    /\ UNCHANGED <<cfg, env, rrd, plugin_i, commands, index, executed, files,
                   scratch, result, hist, ret>>

\* Rrdtool::new(config.input_dir)
New ==
    /\ pc = "main"
    /\ cfg.config_ok
    /\ rrd' = Rrdtool_new(cfg.input)
    /\ pc' = "with_subcommand"
    /\ UNCHANGED <<cfg, env, plugin_i, commands, index, executed, files, scratch,
                   result, exit_code, hist, ret>>

\* One call of the builder chain: from position at, rrd becomes next.
Builder(at, next, then) ==
    /\ pc = at
    /\ rrd' = next
    /\ pc' = then
    /\ UNCHANGED <<cfg, env, plugin_i, commands, index, executed, files, scratch,
                   result, exit_code, hist, ret>>

WithSubcommand ==
    Builder("with_subcommand", with_subcommand(rrd, <<"graph">>), "with_output_file")

WithOutputFile ==
    Builder("with_output_file", with_output_file(rrd, cfg.output), "with_start")

WithStart == Builder("with_start", with_number(rrd, <<"--start">>, cfg.start), "with_end")

WithEnd == Builder("with_end", with_number(rrd, <<"--end">>, cfg.end), "with_width")

WithWidth == Builder("with_width", with_number(rrd, <<"-w">>, cfg.width), "with_height")

WithHeight == Builder("with_height", with_number(rrd, <<"-h">>, cfg.height), "with_plugins")

\* A mutant of with_plugins that goes on to the next plugin after an error.
PluginEnteredGoesOn(name, out) ==
    /\ hist' = [hist EXCEPT !.plugins = Append(@,
                   [plugin |-> name,
                    before |-> rrd.graph_args.args,
                    after  |-> out.self.graph_args.args,
                    status |-> out.status])]
    /\ rrd' = out.self
    /\ executed' = executed \o out.procs
    /\ plugin_i' = plugin_i + 1
    /\ UNCHANGED <<pc, result>>
    /\ UNCHANGED <<cfg, env, commands, index, files, scratch, exit_code, ret>>

\* What with_plugins does with the outcome of the plugin it entered.
PluginEntered(name, out) ==
    /\ hist' = [hist EXCEPT !.plugins = Append(@,
                   [plugin |-> name,
                    before |-> rrd.graph_args.args,
                    after  |-> out.self.graph_args.args,
                    status |-> out.status])]
    /\ rrd' = out.self
    /\ executed' = executed \o out.procs
    /\ IF out.status = "Ok"
       THEN /\ plugin_i' = plugin_i + 1
            /\ UNCHANGED <<pc, result>>
       ELSE /\ Ended(out.status)
            /\ UNCHANGED plugin_i
    /\ UNCHANGED <<cfg, env, commands, index, files, scratch, exit_code, ret>>

\* with_plugins, an iteration that enters the processes plugin.
EnterProcesses ==
    /\ pc = "with_plugins"
    /\ plugin_i < Len(cfg.plugins)
    /\ cfg.plugins[plugin_i + 1] = "Processes"
    /\ IF is_none(cfg.processes)
       THEN PluginEntered("Processes", Outcome("Panic", rrd, <<>>))
       ELSE PluginEntered("Processes",
                          enter_plugin_processes(rrd, unwrap(cfg.processes), env))

\* with_plugins, an iteration that enters the memory plugin.
EnterMemory ==
    /\ pc = "with_plugins"
    /\ plugin_i < Len(cfg.plugins)
    /\ cfg.plugins[plugin_i + 1] = "Memory"
    /\ IF is_none(cfg.memory)
       THEN PluginEntered("Memory", Outcome("Panic", rrd, <<>>))
       ELSE PluginEntered("Memory", enter_plugin_memory(rrd, unwrap(cfg.memory), env))

\* with_plugins returns Ok after the last plugin; the chain goes on to exec.
WithPluginsReturn ==
    /\ pc = "with_plugins"
    /\ plugin_i = Len(cfg.plugins)
    /\ pc' = "exec"
    /\ UNCHANGED <<cfg, env, rrd, plugin_i, commands, index, executed, files,
                   scratch, result, exit_code, hist, ret>>

\* exec: exec_local or exec_remote compiles the commands before its loop.
ExecBuild ==
    /\ pc = "exec"
    /\ LET built == build_rrdtool_args(rrd)
       IN  IF panicked(built)
              \/ (rrd.target = Remote /\ (is_none(rrd.username) \/ is_none(rrd.hostname)))
           THEN /\ Ended("Panic")
                /\ UNCHANGED <<commands, index>>
           ELSE /\ commands' = value(built)
                /\ index' = 0
                /\ pc' = IF rrd.target = Local THEN "exec_local" ELSE "exec_remote_ssh"
                /\ UNCHANGED result
    /\ UNCHANGED <<cfg, env, rrd, plugin_i, executed, files, scratch, exit_code,
                   hist, ret>>

\* How an external process can end: it exits with success, it exits with a
\* failure status, or it cannot be started at all.
Statuses == {"success", "failure", "spawn_error"}

\* The file name written, now showing the image of the given slot.
write_file(fs, name, slot) ==
    {f \in fs : f.name # name} \cup {[name |-> name, slot |-> slot]}

\* A mutant of exec_local that goes on to the next command after a failure.
ExecLocalGoesOn ==
    /\ pc = "exec_local"
    /\ index < Len(commands)
    /\ \E status \in Statuses :
          /\ executed' = Append(executed,
                [kind |-> "render", prog |-> "rrdtool", args |-> commands[index + 1],
                 status |-> status, slot |-> index])
          /\ files' = IF status = "success"
                      THEN write_file(files, commands[index + 1][2], index)
                      ELSE files
          /\ index' = index + 1
          /\ UNCHANGED <<pc, result>>
    /\ UNCHANGED <<cfg, env, rrd, plugin_i, commands, scratch, exit_code, hist, ret>>

\* exec_local, one iteration: the renderer runs on the next command.
ExecLocal ==
    /\ pc = "exec_local"
    /\ index < Len(commands)
    /\ \E status \in Statuses :
          /\ executed' = Append(executed,
                [kind |-> "render", prog |-> "rrdtool", args |-> commands[index + 1],
                 status |-> status, slot |-> index])
          /\ IF status = "success"
             THEN /\ files' = write_file(files, commands[index + 1][2], index)
                  /\ index' = index + 1
                  /\ UNCHANGED <<pc, result>>
             ELSE /\ Ended("Err")
                  /\ UNCHANGED <<files, index>>
    /\ UNCHANGED <<cfg, env, rrd, plugin_i, commands, scratch, exit_code, hist, ret>>

\* A mutant of the ssh step that does not look at the exit status.
ExecRemoteSshUnchecked ==
    /\ pc = "exec_remote_ssh"
    /\ index < Len(commands)
    /\ \E status \in Statuses :
          /\ executed' = Append(executed,
                [kind |-> "render", prog |-> "ssh",
                 args |-> <<network_address(rrd), rrd.command>> \o commands[index + 1],
                 status |-> status, slot |-> index])
          /\ scratch' = Some(index)
          /\ pc' = "exec_remote_scp"
          /\ UNCHANGED result
    /\ UNCHANGED <<cfg, env, rrd, plugin_i, commands, index, files, exit_code,
                   hist, ret>>

\* exec_remote, first half of an iteration: ssh runs the renderer remotely,
\* which writes the scratch file.
ExecRemoteSsh ==
    /\ pc = "exec_remote_ssh"
    /\ index < Len(commands)
    /\ \E status \in Statuses :
          /\ executed' = Append(executed,
                [kind |-> "render", prog |-> "ssh",
                 args |-> <<network_address(rrd), rrd.command>> \o commands[index + 1],
                 status |-> status, slot |-> index])
          /\ IF status = "success"
             THEN /\ scratch' = Some(index)
                  /\ pc' = "exec_remote_scp"
                  /\ UNCHANGED result
             ELSE /\ Ended("Err")
                  /\ UNCHANGED scratch
    /\ UNCHANGED <<cfg, env, rrd, plugin_i, commands, index, files, exit_code,
                   hist, ret>>

\* A mutant of the scp step that goes on to copy for the next slot without
\* a render in between.
ExecRemoteScpNoRenderBetween ==
    /\ pc = "exec_remote_scp"
    /\ LET output_filename == get_output_filename(rrd, index)
       IN  IF panicked(output_filename)
           THEN /\ Ended("Panic")
                /\ UNCHANGED <<executed, files, index>>
           ELSE \E status \in Statuses :
                   /\ executed' = Append(executed,
                         [kind |-> "copy", prog |-> "scp",
                          args |-> <<network_address(rrd) \o <<":">>
                                         \o unwrap(rrd.remote_filename),
                                     value(output_filename)>>,
                          status |-> status, slot |-> index])
                   /\ IF status = "success"
                      THEN /\ files' = write_file(files, value(output_filename),
                                                  unwrap(scratch))
                           /\ index' = index + 1
                           /\ pc' = IF index + 1 < Len(commands) THEN "exec_remote_scp"
                                    ELSE "exec_remote_ssh"
                           /\ UNCHANGED result
                      ELSE /\ Ended("Err")
                           /\ UNCHANGED <<files, index>>
    /\ UNCHANGED <<cfg, env, rrd, plugin_i, commands, scratch, exit_code, hist, ret>>

\* exec_remote, second half of an iteration: scp copies the scratch file to
\* the output file of the slot.
ExecRemoteScp ==
    /\ pc = "exec_remote_scp"
    /\ LET output_filename == get_output_filename(rrd, index)
       IN  IF panicked(output_filename)
           THEN /\ Ended("Panic")
                /\ UNCHANGED <<executed, files, index>>
           ELSE \E status \in Statuses :
                   /\ executed' = Append(executed,
                         [kind |-> "copy", prog |-> "scp",
                          args |-> <<network_address(rrd) \o <<":">>
                                         \o unwrap(rrd.remote_filename),
                                     value(output_filename)>>,
                          status |-> status, slot |-> index])
                   /\ IF status = "success"
                      THEN /\ files' = write_file(files, value(output_filename),
                                                  unwrap(scratch))
                           /\ index' = index + 1
                           /\ pc' = "exec_remote_ssh"
                           /\ UNCHANGED result
                      ELSE /\ Ended("Err")
                           /\ UNCHANGED <<files, index>>
    /\ UNCHANGED <<cfg, env, rrd, plugin_i, commands, scratch, exit_code, hist, ret>>

\* exec_local / exec_remote: the loop is over, Ok(()) is returned.
ExecReturn ==
    /\ pc \in {"exec_local", "exec_remote_ssh"}
    /\ index = Len(commands)
    /\ Ended("Ok")
    /\ UNCHANGED <<cfg, env, rrd, plugin_i, commands, index, executed, files,
                   scratch, exit_code, hist, ret>>

\* main: the process exits with the status of the result.
Exit ==
    /\ pc = "ended"
    /\ exit_code' = exit_status(result)
    /\ pc' = "exited"
    /\ UNCHANGED <<cfg, env, rrd, plugin_i, commands, index, executed, files,
                   scratch, result, hist, ret>>

---------------------------------------------------------------------------
(* Bounds and the inputs the model is run on *)

\* Directories with 0..MaxSmallProcs processes are tried, and directories
\* with one process fewer than the palette has colours up to PaletteOver more.
MaxSmallProcs == 4

PaletteOver == 1

\* max_processes runs over 0..MaxPerImage and the default, the palette size.
MaxPerImage == 3

BoundedSeqs(S, n) == UNION {[1..k -> S] : k \in 0..n}

\* The name of the i-th process of the collectd directory.
ProcName(i) ==
    CASE i = 1 -> <<"firefox">>
      [] i = 2 -> <<"rust", " ", "language", " ", "server">>
      [] i = 3 -> <<"chrome">>
      [] i = 4 -> <<"rust", " ", "analyzer">>
      [] OTHER -> <<"p">> \o to_string(i)

\* The listing of a collectd directory with n processes: the memory
\* directory, then processes-<name> for each.
Listing(n) == << <<"memory">> >> \o [i \in 1..n |-> <<"processes-">> \o ProcName(i)]

ProcCounts ==
    (0..MaxSmallProcs) \cup ((Len(COLORS) - 1)..(Len(COLORS) + PaletteOver))

Filters ==
    {None,
     Some(<< <<"chrome">>, <<"firefox">>, <<"vstudio">> >>),
     Some(<< <<"fire">>, <<"rust">> >>)}

MaxProcessesValues == (0..MaxPerImage) \cup {Len(COLORS)}

LocalDir == <<"/", "d">>

LocalDirSlash == <<"/", "d", "/">>

RemoteDir == <<"u", "@", "h", ":", "/", "d">>

Locators == {LocalDir, LocalDirSlash, RemoteDir}

Outputs == {<<"out", ".", "png">>, <<"out">>}

Processes == "Processes"

Memory == "Memory"

PluginLists ==
    {<<>>, <<Processes>>, <<Memory>>, <<Processes, Memory>>, <<Memory, Processes>>}

\* A list that repeats its categories until it is PaletteOver longer than
\* the palette: MemoryData::new takes any vector of categories.
RepeatedCategories ==
    [i \in 1..(Len(COLORS) + PaletteOver) |-> IF i % 2 = 1 THEN "Cached" ELSE "Free"]

MemoryLists ==
    {<<"Cached", "Free">>, <<"Used", "SlabRecl">>, <<"Free", "Cached", "Used">>,
     RepeatedCategories}

AllMemoryFiles == {to_filename(t) : t \in MemoryType}

MemoryFileSets == {AllMemoryFiles, {to_filename(t) : t \in {"Cached", "Free", "Used"}}}

uses(plugins, name) == \E k \in 1..Len(plugins) : plugins[k] = name

\* Config, as Config::new fills it: the data of a plugin is Some exactly
\* when the plugin is selected.
Config(ok, input, output, plugins, max_processes, processes_to_draw, memory_types) ==
    [config_ok |-> ok,
     input     |-> input,
     output    |-> output,
     start     |-> 1604953625,
     end       |-> 1604957225,
     width     |-> 2048,
     height    |-> 1024,
     plugins   |-> plugins,
     processes |-> IF uses(plugins, Processes)
                   THEN Some([max_processes     |-> max_processes,
                              processes_to_draw |-> processes_to_draw])
                   ELSE None,
     memory    |-> IF uses(plugins, Memory)
                   THEN Some([memory_types |-> memory_types])
                   ELSE None]

World(dir_ok, n, mem_ls_ok, memfiles) ==
    [dir_ok |-> dir_ok, entries |-> Listing(n), mem_ls_ok |-> mem_ls_ok,
     memfiles |-> memfiles]

\* The struct before Rrdtool::new has run.
NoRrdtool == Rrdtool_new(<<>>)

\* Everything but cfg, env and rrd at the start.
Fresh(at) ==
    /\ pc = at
    /\ plugin_i = 0
    /\ commands = <<>>
    /\ index = 0
    /\ executed = <<>>
    /\ files = {}
    /\ scratch = None
    /\ result = "none"
    /\ exit_code = -1
    /\ hist = [calls |-> <<>>, plugins |-> <<>>]
    /\ ret = <<>>

\* A run of the program.  What a configuration does not read is held at
\* one value: the process directory where the processes plugin is not
\* selected or the listing fails, the memory files where the memory plugin
\* is not selected, the remote listing of the memory directory where the
\* target is local.
Init ==
    /\ Fresh("main")
    /\ rrd = NoRrdtool
    /\ \E ok \in BOOLEAN, input \in Locators, output \in Outputs,
          plugins \in PluginLists :
        \E dir_ok \in BOOLEAN, n \in ProcCounts, m \in MaxProcessesValues,
           filter \in Filters :
          \E mem_ls_ok \in BOOLEAN, types \in MemoryLists, memfiles \in MemoryFileSets :
            /\ ~ok => input = LocalDir /\ output = <<"out", ".", "png">>
                        /\ plugins = <<Processes>>
            /\ (~ok \/ ~uses(plugins, Processes) \/ ~dir_ok)
                  => n = 0 /\ m = Len(COLORS) /\ filter = None
            /\ (~ok \/ ~uses(plugins, Processes)) => dir_ok
            /\ (~ok \/ ~uses(plugins, Memory))
                  => types = <<"Cached", "Free">> /\ memfiles = AllMemoryFiles
            /\ (~ok \/ ~uses(plugins, Memory) \/ input # RemoteDir) => mem_ls_ok
            /\ cfg = Config(ok, input, output, plugins, m, filter, types)
            /\ env = World(dir_ok, n, mem_ls_ok, memfiles)

Next ==
    \/ ConfigError
    \/ New
    \/ WithSubcommand
    \/ WithOutputFile
    \/ WithStart
    \/ WithEnd
    \/ WithWidth
    \/ WithHeight
    \/ EnterProcesses
    \/ EnterMemory
    \/ WithPluginsReturn
    \/ ExecBuild
    \/ ExecLocal
    \/ ExecRemoteSsh
    \/ ExecRemoteScp
    \/ ExecReturn
    \/ Exit

Spec == Init /\ [][Next]_vars

---------------------------------------------------------------------------
(* The locator resolver on every short locator *)

MaxLocatorLen == 5

LocatorAlphabet == {"u", "@", ":", "/", LF}

InitParse ==
    /\ Fresh("main")
    /\ rrd = NoRrdtool
    /\ \E input \in BoundedSeqs(LocatorAlphabet, MaxLocatorLen) :
          cfg = Config(TRUE, input, <<"out", ".", "png">>, <<>>, Len(COLORS), None, <<>>)
    /\ env = World(TRUE, 0, TRUE, {})

NextParse == New

SpecParse == InitParse /\ [][NextParse]_vars

---------------------------------------------------------------------------
(* The output file name of every slot, for short file names *)

MaxSlots == 11

MaxNameLen == 4

NameAlphabet == {"out", ".", "png"}

RECURSIVE Slots(_)
\* An accumulator of n empty slots.
Slots(n) == IF n = 0 THEN <<>> ELSE Append(Slots(n - 1), <<>>)

InitName ==
    /\ Fresh("call")
    /\ \E input \in {LocalDir, RemoteDir}, n \in 0..MaxSlots,
          output \in BoundedSeqs(NameAlphabet, MaxNameLen) :
          /\ cfg = Config(TRUE, input, output, <<>>, Len(COLORS), None, <<>>)
          /\ rrd = [with_output_file(Rrdtool_new(input), output)
                       EXCEPT !.graph_args.args = Slots(n)]
    /\ env = World(TRUE, 0, TRUE, {})

\* A call of get_output_filename for a slot of the accumulator.
GetOutputFilename ==
    /\ pc = "call"
    /\ \E i \in 0..(Len(rrd.graph_args.args) - 1) :
          /\ ret' = get_output_filename(rrd, i)
          /\ hist' = [hist EXCEPT !.calls = Append(@, <<"get_output_filename", i>>)]
    /\ pc' = "returned"
    /\ UNCHANGED <<cfg, env, rrd, plugin_i, commands, index, executed, files,
                   scratch, result, exit_code>>

NextName == GetOutputFilename

SpecName == InitName /\ [][NextName]_vars

---------------------------------------------------------------------------
(* The accumulator under any short sequence of new_graph and push calls *)

MaxCalls == 5

\* The series pushed: legend name, colour, thickness and path, with the
\* symbolic name the legend name stands for ("" where it has none).
Series ==
    {[legend_name |-> <<"firefox">>, word |-> <<"firefox">>,
      color |-> COLORS[1], thickness |-> 3,
      path |-> <<"/", "d", "/", "processes-", "firefox", "/", "ps_rss", ".", "rrd">>],
     [legend_name |-> <<"rust", " ", "language", " ", "server">>, word |-> <<"rust">>,
      color |-> COLORS[2], thickness |-> 3,
      path |-> <<"/", "d", "/", "processes-", "rust", " ", "language", " ", "server",
                 "/", "ps_rss", ".", "rrd">>],
     [legend_name |-> <<" ", "rust", " ", "analyzer">>, word |-> <<"rust">>,
      color |-> COLORS[1], thickness |-> 5,
      path |-> <<"/", "d", "/", "memory", "/", "memory-", "free", ".", "rrd">>],
     [legend_name |-> <<" ">>, word |-> <<>>,
      color |-> COLORS[3], thickness |-> 5,
      path |-> <<"/", "d", "/", "x", ".", "rrd">>]}

InitAcc ==
    /\ Fresh("acc")
    /\ \E input \in {LocalDir, RemoteDir} :
          /\ cfg = Config(TRUE, input, <<"out", ".", "png">>, <<>>, Len(COLORS), None, <<>>)
          /\ rrd = Rrdtool_new(input)
    /\ env = World(TRUE, 0, TRUE, {})

\* A call of GraphArguments::new_graph.
CallNewGraph ==
    /\ pc = "acc"
    /\ Len(hist.calls) < MaxCalls
    /\ rrd' = [rrd EXCEPT !.graph_args = new_graph(@)]
    /\ hist' = [hist EXCEPT !.calls = Append(@, <<"new_graph">>)]
    /\ UNCHANGED <<cfg, env, pc, plugin_i, commands, index, executed, files,
                   scratch, result, exit_code, ret>>

\* A call of GraphArguments::push.
CallPush ==
    /\ pc = "acc"
    /\ Len(hist.calls) < MaxCalls
    /\ \E s \in Series :
          LET r == push(rrd.graph_args, s.legend_name, s.color, s.thickness, s.path)
          IN  /\ hist' = [hist EXCEPT !.calls = Append(@, <<"push", s>>)]
              /\ IF panicked(r)
                 THEN /\ Ended("Panic")
                      /\ UNCHANGED rrd
                 ELSE /\ rrd' = [rrd EXCEPT !.graph_args = value(r)]
                      /\ UNCHANGED <<pc, result>>
    /\ UNCHANGED <<cfg, env, plugin_i, commands, index, executed, files, scratch,
                   exit_code, ret>>

\* The processes with_process_rss is called for in this specification.
RssProcesses == {<<"rust", " ", "language", " ", "server">>}

\* A call of Rrdtool::with_process_rss, as an iteration of the loop of the
\* processes plugin makes it for image 0 or image 1.
CallWithProcessRss ==
    /\ pc = "acc"
    /\ Len(hist.calls) < MaxCalls
    /\ \E process \in RssProcesses, graph_args_no \in 0..1 :
          LET r == with_process_rss(rrd, rrd.input_dir, process, COLORS[2], graph_args_no)
          IN  /\ hist' = [hist EXCEPT !.calls = Append(@,
                             <<"with_process_rss",
                               [process |-> process, color |-> COLORS[2],
                                graph_args_no |-> graph_args_no]>>)]
              /\ IF panicked(r)
                 THEN /\ Ended("Panic")
                      /\ UNCHANGED rrd
                 ELSE /\ rrd' = value(r)
                      /\ UNCHANGED <<pc, result>>
    /\ UNCHANGED <<cfg, env, plugin_i, commands, index, executed, files, scratch,
                   exit_code, ret>>

NextAcc == CallNewGraph \/ CallPush \/ CallWithProcessRss

SpecAcc == InitAcc /\ [][NextAcc]_vars

---------------------------------------------------------------------------
(* filter_processes on every short directory and allow-list *)

MaxDiscovered == 3

MaxAllowed == 2

\* Names of which one is part of another, or begins another.
FilterNames == {<<"firefox">>, <<"fire">>, <<"rust">>, <<"rust", " ", "analyzer">>}

InitFilter ==
    /\ Fresh("call")
    /\ rrd = Rrdtool_new(LocalDir)
    /\ \E names \in BoundedSeqs(FilterNames, MaxDiscovered),
          filter \in {None} \cup {Some(a) : a \in BoundedSeqs(FilterNames, MaxAllowed)} :
          /\ cfg = Config(TRUE, LocalDir, <<"out", ".", "png">>, <<Processes>>,
                          Len(COLORS), filter, <<>>)
          /\ env = [World(TRUE, 0, TRUE, {}) EXCEPT
                       !.entries = [k \in 1..Len(names) |-> <<"processes-">> \o names[k]]]

\* enter_plugin up to its call of filter_processes on the names found.
CallFilterProcesses ==
    /\ pc = "call"
    /\ LET processes         == value(get_processes_names_from_directory(rrd, env))
           processes_to_draw == unwrap(cfg.processes).processes_to_draw
       IN  /\ ret' = Ok(filter_processes(processes, processes_to_draw))
           /\ hist' = [hist EXCEPT !.calls =
                          Append(@, <<"filter_processes", processes, processes_to_draw>>)]
    /\ pc' = "returned"
    /\ UNCHANGED <<cfg, env, rrd, plugin_i, commands, index, executed, files,
                   scratch, result, exit_code>>

NextFilter == CallFilterProcesses

SpecFilter == InitFilter /\ [][NextFilter]_vars

---------------------------------------------------------------------------
(* One push of any short legend name, and its two strings read back *)

MaxLegendLen == 3

\* A letter, the white space between words and the characters the DEF and
\* LINE syntax is written with.
LegendAlphabet == {"a", " ", "=", "#", ":"}

InitRound ==
    /\ Fresh("call")
    /\ \E input \in {LocalDir, RemoteDir} :
          /\ cfg = Config(TRUE, input, <<"out", ".", "png">>, <<>>, Len(COLORS), None, <<>>)
          /\ rrd = Rrdtool_new(input)
    /\ env = World(TRUE, 0, TRUE, {})

\* GraphArguments::push on the fresh accumulator; what is kept of it is
\* the pair of strings it has left in slot 0.
PushOnce ==
    /\ pc = "call"
    /\ \E legend_name \in BoundedSeqs(LegendAlphabet, MaxLegendLen),
          color \in {COLORS[1], COLORS[20]}, thickness \in {3, 5, 10} :
          LET s == [legend_name |-> legend_name, color |-> color,
                    thickness |-> thickness,
                    path |-> <<"/", "d", "/", "x", ".", "rrd">>]
              r == push(rrd.graph_args, s.legend_name, s.color, s.thickness, s.path)
          IN  /\ hist' = [hist EXCEPT !.calls = Append(@, <<"push", s>>)]
              /\ IF panicked(r)
                 THEN /\ ret' = Panicked
                      /\ UNCHANGED rrd
                 ELSE /\ ret' = Done(value(r).args[1])
                      /\ rrd' = [rrd EXCEPT !.graph_args = value(r)]
    /\ pc' = "returned"
    /\ UNCHANGED <<cfg, env, plugin_i, commands, index, executed, files, scratch,
                   result, exit_code>>

NextRound == PushOnce

SpecRound == InitRound /\ [][NextRound]_vars

\* Reading a DEF argument by DEF:<name>=<path>:value:AVERAGE: the name is
\* what stands between "DEF:" and the first '='.
parse_def(d) ==
    LET eqs == {k \in 3..Len(d) : d[k] = "="}
    IN  [name |-> SubSeq(d, 3, Min(eqs) - 1)]

\* Reading a LINE argument by LINE<thickness>:<name><color>:"<legend>": the
\* thickness up to the first ':', the name up to the '#' of the colour, the
\* colour, and the legend between :" and the closing quote.
parse_line(l) ==
    LET colon == Min({k \in 2..Len(l) : l[k] = ":"})
        hash  == Min({k \in colon..Len(l) : l[k] = "#"})
    IN  [thickness |-> SubSeq(l, 2, colon - 1),
         name      |-> SubSeq(l, colon + 1, hash - 1),
         color     |-> SubSeq(l, hash, hash + 1),
         legend    |-> SubSeq(l, hash + 4, Len(l) - 1)]

---------------------------------------------------------------------------
(* Config::parse_timespan *)

\* A u64 is written as the number it is, but for the result of a
\* subtraction that wrapped: [wrapped |-> TRUE, n |-> d] is 2^64 - d.
U64(n) == [wrapped |-> FALSE, n |-> n]

\* u64 a - b: a release build wraps around, a debug build panics on
\* overflow.
sub_u64(a, b, build) ==
    IF a >= b THEN Done(U64(a - b))
    ELSE IF build = "debug" THEN Panicked
    ELSE Done([wrapped |-> TRUE, n |-> b - a])

\* Characters that are not ASCII.
NonAscii == {"e-acute"}

\* str::is_ascii
is_ascii(s) == \A k \in 1..Len(s) : s[k] \notin NonAscii

\* The lower case of the words written with capitals.
to_ascii_lowercase(t) ==
    CASE t = "LAST"  -> "last"
      [] t = "Last"  -> "last"
      [] t = "Hour"  -> "hour"
      [] t = "YEAR"  -> "year"
      [] t = "S"     -> "s"
      [] OTHER       -> t

\* String::make_ascii_lowercase
make_ascii_lowercase(s) == [k \in 1..Len(s) |-> to_ascii_lowercase(s[k])]

\* str::starts_with("last ")
starts_with_last(s) == Len(s) >= 2 /\ s[1] = "last" /\ s[2] = " "

RECURSIVE split(_)
\* str::split(" "): the texts between the spaces, empty ones included.
split(s) ==
    LET spaces == {k \in 1..Len(s) : s[k] = " "}
    IN  IF spaces = {} THEN <<s>>
        ELSE <<SubSeq(s, 1, Min(spaces) - 1)>>
                \o split(SubSeq(s, Min(spaces) + 1, Len(s)))

RECURSIVE digits_value(_)
\* The number a text of digits writes.
digits_value(w) ==
    IF Len(w) = 0 THEN 0
    ELSE 10 * digits_value(SubSeq(w, 1, Len(w) - 1))
            + (CHOOSE d \in 0..9 : Digits[d + 1] = w[Len(w)])

\* u64::from_str: an optional '+', then digits and nothing else, and a
\* value that fits 64 bits, which no text of more than 20 digits does (of
\* the shorter ones, those of up to 9 digits are drawn).
from_str(w) ==
    LET body == IF Len(w) > 0 /\ w[1] = "+" THEN Tail(w) ELSE w
    IN  IF Len(body) = 0 THEN Err
        ELSE IF \E k \in 1..Len(body) : \A d \in 1..10 : Digits[d] # body[k] THEN Err
        ELSE IF Len(body) > 20 THEN Err
        ELSE Ok(digits_value(body))

\* The match on the unit: its seconds, or None for any other word.
multiplier_of(word) ==
    CASE word \in {<<"second">>, <<"second", "s">>} -> Some(1)
      [] word \in {<<"minute">>, <<"minute", "s">>} -> Some(60)
      [] word \in {<<"hour">>, <<"hour", "s">>}     -> Some(3600)
      [] word \in {<<"day">>, <<"day", "s">>}       -> Some(86400)
      [] word \in {<<"week">>, <<"week", "s">>}     -> Some(604800)
      [] word \in {<<"month">>, <<"month", "s">>}   -> Some(2592000)
      [] word \in {<<"year">>, <<"year", "s">>}     -> Some(31536000)
      [] OTHER                                      -> None

\* Config::parse_timespan at the time now: Done(Ok(start, end)),
\* Done(Err), or Panicked where words[index] (here words[at + 1]) is out of range or, in a debug
\* build, the subtraction overflows.
parse_timespan(timespan, now, build) ==
    IF ~is_ascii(timespan) THEN Done(Err)
    ELSE LET lower == make_ascii_lowercase(timespan)
         IN  IF ~starts_with_last(lower) THEN Done(Err)
             ELSE LET words  == split(lower)
                      parsed == from_str(words[2])
                      at     == IF is_err(parsed) THEN 1 ELSE 2
                      number == IF is_err(parsed) THEN 1 ELSE parsed[1]
                  IN  IF at + 1 > Len(words) THEN Panicked
                      ELSE LET multiplier == multiplier_of(words[at + 1])
                           IN  IF is_none(multiplier) THEN Done(Err)
                               ELSE IF number > now \div unwrap(multiplier)
                               THEN LET start == sub_u64(now, number * unwrap(multiplier),
                                                         build)
                                    IN  IF panicked(start) THEN Panicked
                                        ELSE Done(Ok([start |-> value(start),
                                                      end |-> U64(now)]))
                               ELSE Done(Ok([start |-> U64(now - number * unwrap(multiplier)),
                                             end |-> U64(now)]))

\* The largest number of units asked for: the years that reach back
\* before 1970 from the time of the run.
MaxNumber == 51

Numbers == {0, 1, 5, 10, MaxNumber - 1, MaxNumber}

\* The units with their seconds, and the ways a unit is written.
UnitSeconds ==
    {<<"second", 1>>, <<"minute", 60>>, <<"hour", 3600>>, <<"day", 86400>>,
     <<"week", 604800>>, <<"month", 2592000>>, <<"year", 31536000>>}

UnitWords ==
    {[word |-> <<u[1]>>, seconds |-> u[2]] : u \in UnitSeconds}
    \cup {[word |-> <<u[1], "s">>, seconds |-> u[2]] : u \in UnitSeconds}
    \cup {[word |-> <<"Hour">>, seconds |-> 3600],
          [word |-> <<"YEAR", "S">>, seconds |-> 31536000]}

LastWords == {"last", "Last", "LAST"}

\* A timespan as given on the command line, with what it asks for.
Timespan(text, shape, n, seconds) ==
    [timespan |-> text, shape |-> shape, n |-> n, seconds |-> seconds]

Timespans ==
    {Timespan(<<l, " ">> \o to_string(n) \o <<" ">> \o u.word, "last_n_unit", n, u.seconds) :
        l \in LastWords, n \in Numbers, u \in UnitWords}
    \cup {Timespan(<<l, " ">> \o u.word, "last_unit", 1, u.seconds) :
            l \in LastWords, u \in UnitWords}
    \cup {Timespan(text, "not_last", 0, 0) :
            text \in {<<>>, <<"last">>, <<"lasts", " ", "5", " ", "minute", "s">>,
                      <<"5", " ", "minute", "s">>, <<" ", "last", " ", "hour">>,
                      <<"next", " ", "hour">>}}
    \cup {Timespan(text, "unknown_unit", 0, 0) :
            text \in {<<"last", " ", "fortnight">>, <<"last", " ", "5", " ", "fortnight">>,
                      <<"last", " ", "5", " ", "minute", "s", "s">>,
                      <<"last", " ", "-", "5", " ", "minute", "s">>,
                      <<"last", " ">>,
                      <<"last", " ">> \o [k \in 1..21 |-> "9"] \o <<" ", "second", "s">>}}
    \cup {Timespan(text, "other", 0, 0) :
            text \in {<<"last", " ", "5">>, <<"last", " ", "+", "5", " ", "day", "s">>,
                      <<"last", " ", "5", " ", "hour", " ", "ago">>,
                      <<"last", " ", "e-acute">>}}

InitTime ==
    /\ Fresh("call")
    /\ rrd = NoRrdtool
    /\ cfg \in Timespans
    /\ env = [now |-> 1604957225]

\* Config::new calls parse_timespan on the timespan given, in a debug or in
\* a release build.
ParseTimespan ==
    /\ pc = "call"
    /\ \E build \in {"debug", "release"} :
          /\ ret' = parse_timespan(cfg.timespan, env.now, build)
          /\ hist' = [hist EXCEPT !.calls = Append(@, <<"parse_timespan", build>>)]
    /\ pc' = "returned"
    /\ UNCHANGED <<cfg, env, rrd, plugin_i, commands, index, executed, files,
                   scratch, result, exit_code>>

NextTime == ParseTimespan

SpecTime == InitTime /\ [][NextTime]_vars

---------------------------------------------------------------------------
(* Two runs at a time against one remote host *)

\* Each of the two runs draws the processes of the directory, up to
\* MaxRunSlots of them, on 1..MaxRunSlots images.
MaxRunSlots == 2

Runs == {"A", "B"}

\* Both runs have compiled their commands and stand at the head of the loop
\* of exec_remote; nothing has been rendered on the host so far.  cfg, rrd,
\* commands, pc, index and result hold one value per run; the scratch file
\* of the host, the one file both runs name, holds the run and slot it was
\* last rendered for.
InitTwoRuns ==
    /\ env = World(TRUE, MaxRunSlots, TRUE, {})
    /\ \E m \in [Runs -> 1..MaxRunSlots] :
          cfg = [r \in Runs |->
                    Config(TRUE, RemoteDir, <<"out", ".", "png">>, <<Processes>>,
                           m[r], None, <<>>)]
    /\ rrd = [r \in Runs |->
                 with_plugins(run_builder(cfg[r], cfg[r].input), cfg[r], env, 1).self]
    /\ commands = [r \in Runs |-> value(build_rrdtool_args(rrd[r]))]
    /\ pc = [r \in Runs |-> "exec_remote_ssh"]
    /\ index = [r \in Runs |-> 0]
    /\ result = [r \in Runs |-> "none"]
    /\ scratch = None
    /\ files = {}
    /\ executed = <<>>
    /\ plugin_i = Len(<<Processes>>)
    /\ exit_code = -1
    /\ hist = [calls |-> <<>>, plugins |-> <<>>]
    /\ ret = <<>>

\* exec_remote of one run, first half of an iteration: ssh runs the
\* renderer on the host, which writes the scratch file.
RunSsh ==
    \E r \in Runs :
        /\ pc[r] = "exec_remote_ssh"
        /\ index[r] < Len(commands[r])
        /\ \E status \in Statuses :
              /\ executed' = Append(executed,
                    [run |-> r, kind |-> "render", prog |-> "ssh",
                     args |-> <<network_address(rrd[r]), rrd[r].command>>
                                  \o commands[r][index[r] + 1],
                     status |-> status, slot |-> index[r]])
              /\ IF status = "success"
                 THEN /\ scratch' = Some([run |-> r, slot |-> index[r]])
                      /\ pc' = [pc EXCEPT ![r] = "exec_remote_scp"]
                      /\ UNCHANGED result
                 ELSE /\ result' = [result EXCEPT ![r] = "Err"]
                      /\ pc' = [pc EXCEPT ![r] = "ended"]
                      /\ UNCHANGED scratch
        /\ UNCHANGED <<cfg, env, rrd, plugin_i, commands, index, files, exit_code,
                       hist, ret>>

\* exec_remote of one run, second half of an iteration: scp copies the
\* scratch file of the host to the output file of the slot.
RunScp ==
    \E r \in Runs :
        /\ pc[r] = "exec_remote_scp"
        /\ LET output_filename == value(get_output_filename(rrd[r], index[r]))
           IN  \E status \in Statuses :
                   /\ executed' = Append(executed,
                         [run |-> r, kind |-> "copy", prog |-> "scp",
                          args |-> <<network_address(rrd[r]) \o <<":">>
                                         \o unwrap(rrd[r].remote_filename),
                                     output_filename>>,
                          status |-> status, slot |-> index[r]])
                   /\ IF status = "success"
                      THEN /\ files' = {f \in files :
                                           f.run # r \/ f.name # output_filename}
                                       \cup {[run |-> r, name |-> output_filename,
                                              image |-> unwrap(scratch)]}
                           /\ index' = [index EXCEPT ![r] = @ + 1]
                           /\ pc' = [pc EXCEPT ![r] = "exec_remote_ssh"]
                           /\ UNCHANGED result
                      ELSE /\ result' = [result EXCEPT ![r] = "Err"]
                           /\ pc' = [pc EXCEPT ![r] = "ended"]
                           /\ UNCHANGED <<files, index>>
        /\ UNCHANGED <<cfg, env, rrd, plugin_i, commands, scratch, exit_code, hist, ret>>

\* exec_remote of one run: the loop is over, Ok(()) is returned.
RunReturn ==
    \E r \in Runs :
        /\ pc[r] = "exec_remote_ssh"
        /\ index[r] = Len(commands[r])
        /\ result' = [result EXCEPT ![r] = "Ok"]
        /\ pc' = [pc EXCEPT ![r] = "ended"]
        /\ UNCHANGED <<cfg, env, rrd, plugin_i, commands, index, executed, files,
                       scratch, exit_code, hist, ret>>

NextTwoRuns == RunSsh \/ RunScp \/ RunReturn

SpecTwoRuns == InitTwoRuns /\ [][NextTwoRuns]_vars

---------------------------------------------------------------------------
(* Properties *)

HasNone(s, chars) == \A k \in 1..Len(s) : s[k] \notin chars

\* <path>/<rest>: rest under the directory path, as a path is written.
Under(path, rest) ==
    IF Len(path) > 0 /\ path[Len(path)] = "/" THEN path \o rest
    ELSE path \o <<"/">> \o rest

\* The DEF argument of a series as section 4.3 of the specification writes it.
ExpectedDef(target, word, path) ==
    <<"DEF", ":">> \o word \o <<"=">>
        \o (IF target = Remote THEN <<QUOTE>> \o path \o <<QUOTE>> ELSE path)
        \o <<":", "value", ":", "AVERAGE">>

\* The LINE argument of a series as section 4.3 of the specification writes it.
ExpectedLine(thickness_digit, word, color, legend_name) ==
    <<"LINE", thickness_digit, ":">> \o word \o color \o <<":", QUOTE>>
        \o legend_name \o <<QUOTE>>

\* C1: parse_input_path returns Remote with exactly user, host and path for
\* every locator user@host:path (user and host without '@', ':' and '/',
\* path any text of one line), Local with the path unchanged for every
\* locator without an '@' followed by a ':', and username and hostname are
\* Some exactly when the target is Remote.
C1_ParseInputPathExact ==
    pc = "with_subcommand" =>
        LET s == cfg.input
            N == 1..Len(s)
            Name(x) == Len(x) > 0 /\ HasNone(x, {"@", ":", "/", LF})
        IN  /\ \A i \in N, j \in N :
                  (/\ i < j /\ s[i] = "@" /\ s[j] = ":"
                   /\ Name(SubSeq(s, 1, i - 1))
                   /\ Name(SubSeq(s, i + 1, j - 1))
                   /\ HasNone(SubSeq(s, j + 1, Len(s)), {LF}))
                  => /\ rrd.target = Remote
                     /\ rrd.username = Some(SubSeq(s, 1, i - 1))
                     /\ rrd.hostname = Some(SubSeq(s, i + 1, j - 1))
                     /\ rrd.input_dir = SubSeq(s, j + 1, Len(s))
            /\ (~\E i \in N, j \in N : i < j /\ s[i] = "@" /\ s[j] = ":")
                  => rrd.target = Local /\ rrd.input_dir = s
            /\ is_some(rrd.username) <=> rrd.target = Remote
            /\ is_some(rrd.hostname) <=> rrd.target = Remote

\* C2: with exactly one slot get_output_filename returns the output file
\* name unchanged; with n > 1 slots it returns, for slot i, the name with
\* "_<i+1>" put in right before its last '.', which is never the name itself.
C2_OutputFilenameNumbering ==
    pc = "returned" =>
        LET n    == Len(rrd.graph_args.args)
            i    == hist.calls[1][2]
            f    == rrd.output_filename
            dots == {d \in 1..Len(f) : f[d] = "."}
        IN  /\ n = 1 => ret = Done(f)
            /\ (n > 1 /\ dots # {}) =>
                  LET d == CHOOSE x \in dots : \A y \in dots : y <= x
                  IN  /\ ret = Done(SubSeq(f, 1, d - 1) \o <<"_">> \o to_string(i + 1)
                                        \o SubSeq(f, d, Len(f)))
                      /\ ret # Done(f)

\* C2, its case: the last of eleven slots gets out_11.png.
C2_Witness ==
    /\ pc = "returned"
    /\ Len(rrd.graph_args.args) = 11
    /\ rrd.output_filename = <<"out", ".", "png">>
    /\ ret = Done(<<"out", "_", "1", "1", ".", "png">>)

\* C3: on an empty accumulator, with max_processes m >= 1 and n drawn
\* processes, 0 < n < palette size, the processes plugin creates ceil(n/m)
\* slots, slot j holding the processes j*m .. min((j+1)*m, n)-1 of the drawn
\* list in order (so the last slot holds n mod m of them, or m), the k-th
\* series of every slot in colour COLORS[k].
Discovered == [i \in 1..(Len(env.entries) - 1) |-> ProcName(i)]

Drawn ==
    LET allow == unwrap(cfg.processes).processes_to_draw
        listed(name) == \E k \in 1..Len(unwrap(allow)) : unwrap(allow)[k] = name
    IN  IF Len(allow) = 0 THEN Discovered ELSE SelectSeq(Discovered, listed)

\* The text of a name up to its first space (no name of the model begins
\* with a space).
FirstToken(name) ==
    LET spaces == {k \in 1..Len(name) : name[k] = " "}
    IN  IF spaces = {} THEN name
        ELSE SubSeq(name, 1, (CHOOSE k \in spaces : \A q \in spaces : k <= q) - 1)

\* The two arguments of the process at position q of the drawn list, drawn
\* as the k-th series of its slot.
ExpectedProcess(q, k) ==
    LET name == Drawn[q]
        path == Under(rrd.input_dir, <<"processes-">> \o name
                                        \o <<"/", "ps_rss", ".", "rrd">>)
    IN  <<ExpectedDef(rrd.target, FirstToken(name), path),
          ExpectedLine("3", FirstToken(name), COLORS[k], name)>>

ExpectedProcessSlot(j, m) ==
    LET n    == Len(Drawn)
        last == IF (j + 1) * m < n THEN (j + 1) * m ELSE n
    IN  Concat([k \in 1..(last - j * m) |-> ExpectedProcess(j * m + k, k)])

C3_ProcessesChunks ==
    \A x \in 1..Len(hist.plugins) :
        LET h == hist.plugins[x]
        IN  (/\ h.plugin = Processes
             /\ Len(h.before) = 0
             /\ env.dir_ok
             /\ unwrap(cfg.processes).max_processes >= 1
             /\ Len(Drawn) > 0
             /\ Len(Drawn) < Len(COLORS))
            => LET m == unwrap(cfg.processes).max_processes
                   n == Len(Drawn)
                   c == CHOOSE c \in 1..n : c * m >= n /\ (c - 1) * m < n
               IN  /\ h.status = "Ok"
                   /\ Len(h.after) = c
                   /\ \A j \in 0..(c - 1) : h.after[j + 1] = ExpectedProcessSlot(j, m)
                   /\ Len(h.after[c]) = 2 * (IF n % m = 0 THEN m ELSE n % m)

\* C3, its case: three processes, two per image, give a slot of two and a
\* slot of one.
C3_Witness ==
    /\ Len(hist.plugins) = 1
    /\ hist.plugins[1].plugin = Processes
    /\ hist.plugins[1].status = "Ok"
    /\ unwrap(cfg.processes).max_processes = 2
    /\ Len(Drawn) = 3
    /\ Len(hist.plugins[1].after) = 2
    /\ Len(hist.plugins[1].after[1]) = 4
    /\ Len(hist.plugins[1].after[2]) = 2

\* C4: k >= 1 calls of push on a fresh accumulator, with no call of
\* new_graph, leave one slot of 2k strings: the DEF of the i-th push at
\* position 2i, its LINE at position 2i+1 (0-based), in the order of the calls.
C4_PushesFillSlotZero ==
    LET calls == hist.calls
        k     == Len(calls)
    IN  (/\ pc = "acc"
         /\ k >= 1
         /\ \A q \in 1..k : calls[q][1] = "push")
        => /\ Len(rrd.graph_args.args) = 1
           /\ Len(rrd.graph_args.args[1]) = 2 * k
           /\ \A q \in 1..k :
                 LET s == calls[q][2]
                 IN  /\ rrd.graph_args.args[1][2 * q - 1]
                            = ExpectedDef(rrd.target, s.word, s.path)
                     /\ rrd.graph_args.args[1][2 * q]
                            = ExpectedLine(to_string(s.thickness)[1], s.word, s.color,
                                           s.legend_name)

\* C4, its case: three pushes in a row have filled slot 0 with six strings.
C4_Witness ==
    /\ pc = "acc"
    /\ Len(hist.calls) = 3
    /\ \A q \in 1..3 : hist.calls[q][1] = "push"
    /\ Len(rrd.graph_args.args) = 1
    /\ Len(rrd.graph_args.args[1]) = 6

\* The category a memory type is written as.
Category(t) ==
    CASE t = "Buffered"   -> "buffered"
      [] t = "Cached"     -> "cached"
      [] t = "Free"       -> "free"
      [] t = "SlabRecl"   -> "slab_recl"
      [] t = "SlabUnrecl" -> "slab_unrecl"
      [] t = "Used"       -> "used"

\* memory-<category>.rrd
MemoryFile(t) == <<"memory-", Category(t), ".", "rrd">>

MemoryTypes == unwrap(cfg.memory).memory_types

SomeMemoryFileMissing ==
    \E k \in 1..Len(MemoryTypes) : MemoryFile(MemoryTypes[k]) \notin env.memfiles

\* The two arguments of the i-th listed memory category.
ExpectedMemory(i) ==
    LET t    == MemoryTypes[i]
        path == Under(rrd.input_dir, <<"memory", "/">> \o MemoryFile(t))
    IN  <<ExpectedDef(rrd.target, <<Category(t)>>, path),
          ExpectedLine("5", <<Category(t)>>, COLORS[i], <<Category(t)>>)>>

\* C5: on a local target, the files of all listed categories present (and
\* no more categories than colours), the memory plugin adds exactly one
\* slot, which holds for the i-th category DEF:<category>=<path>/memory/
\* memory-<category>.rrd:value:AVERAGE and LINE5:<category><COLORS[i]>:
\* "<category>", in list order.
C5_MemoryOneSlot ==
    \A x \in 1..Len(hist.plugins) :
        LET h == hist.plugins[x]
        IN  (/\ h.plugin = Memory
             /\ rrd.target = Local
             /\ ~SomeMemoryFileMissing
             /\ Len(MemoryTypes) <= Len(COLORS))
            => /\ h.status = "Ok"
               /\ Len(h.after) = Len(h.before) + 1
               /\ SubSeq(h.after, 1, Len(h.before)) = h.before
               /\ h.after[Len(h.after)]
                     = Concat([i \in 1..Len(MemoryTypes) |-> ExpectedMemory(i)])

\* C5, its case: cached and free, both files present, drawn into one slot.
C5_Witness ==
    /\ rrd.target = Local
    /\ Len(hist.plugins) = 1
    /\ hist.plugins[1].plugin = Memory
    /\ hist.plugins[1].status = "Ok"
    /\ MemoryTypes = <<"Cached", "Free">>
    /\ Len(rrd.graph_args.args) = 1
    /\ Len(rrd.graph_args.args[1]) = 4

\* C6: where the file of a listed category is absent the memory plugin
\* returns an error and leaves the accumulator as it was: no slot added, no
\* argument pushed.
C6_MemoryMissingFile ==
    \A x \in 1..Len(hist.plugins) :
        LET h == hist.plugins[x]
        IN  (h.plugin = Memory /\ SomeMemoryFileMissing)
            => /\ h.status = "Err"
               /\ h.after = h.before
               /\ x = Len(hist.plugins)
               /\ rrd.graph_args.args = h.before
               /\ result = "Err"

\* C6, its case: the file of one category is there, that of the other is
\* not, and the plugin has returned its error.
C6_Witness ==
    /\ Len(hist.plugins) >= 1
    /\ hist.plugins[Len(hist.plugins)].plugin = Memory
    /\ hist.plugins[Len(hist.plugins)].status = "Err"
    /\ MemoryTypes = <<"Used", "SlabRecl">>
    /\ MemoryFile("Used") \in env.memfiles
    /\ MemoryFile("SlabRecl") \notin env.memfiles

Successful(kind, slot) ==
    \E k \in 1..Len(executed) :
        /\ executed[k].kind = kind
        /\ executed[k].slot = slot
        /\ executed[k].status = "success"

\* C8: the exit status is 0 only if the configuration was parsed, every
\* selected plugin succeeded and the command of every slot (remotely: the
\* render and the copy) exited successfully; after any error it is not 0.
C8_ExitStatus ==
    /\ exit_code = 0 =>
          /\ cfg.config_ok
          /\ Len(hist.plugins) = Len(cfg.plugins)
          /\ \A x \in 1..Len(hist.plugins) : hist.plugins[x].status = "Ok"
          /\ \A k \in 1..Len(executed) : executed[k].status = "success"
          /\ \A i \in 0..(Len(rrd.graph_args.args) - 1) :
                /\ Successful("render", i)
                /\ rrd.target = Remote => Successful("copy", i)
    /\ (/\ pc = "exited"
        /\ \/ ~cfg.config_ok
           \/ result # "Ok"
           \/ \E x \in 1..Len(hist.plugins) : hist.plugins[x].status # "Ok"
           \/ \E k \in 1..Len(executed) : executed[k].status # "success")
       => exit_code # 0

\* C8, its case: a remote run of two slots or more has exited with status 0.
C8_Witness ==
    /\ exit_code = 0
    /\ rrd.target = Remote
    /\ Len(rrd.graph_args.args) >= 2

\* C9: local execution runs the commands in slot order; the first command
\* that fails (or cannot be started) is the last one run and exec returns
\* an error; the images of the slots before it stay where they are; exec
\* returns Ok only after the commands of all slots succeeded.
C9_LocalFailFast ==
    rrd.target = Local =>
        /\ \A k \in 1..Len(executed) :
              /\ executed[k].kind = "render"
              /\ executed[k].slot = k - 1
              /\ executed[k].args = commands[k]
              /\ k < Len(executed) => executed[k].status = "success"
              /\ executed[k].status # "success" => result = "Err"
              /\ executed[k].status = "success"
                    => [name |-> commands[k][2], slot |-> k - 1] \in files
        /\ result = "Ok" =>
              /\ Len(executed) = Len(rrd.graph_args.args)
              /\ \A k \in 1..Len(executed) : executed[k].status = "success"

\* C9, its case: the third of four or more commands has failed, the run is
\* over and the first two images are there.
C9_Witness ==
    /\ rrd.target = Local
    /\ pc = "exited"
    /\ Len(commands) >= 4
    /\ Len(executed) = 3
    /\ executed[3].status = "failure"
    /\ Cardinality(files) = 2

\* The processes exec_remote started.
RemoteSteps ==
    LET exec_step(e) == e.kind # "ls"
    IN  SelectSeq(executed, exec_step)

\* C10: remote execution goes slot by slot, the ssh render of a slot first
\* and its scp copy next; a step that fails is the last step run (it is not
\* run again, no step of a later slot follows) and exec returns an error.
C10_RemoteOrder ==
    rrd.target = Remote =>
        \A q \in 1..Len(RemoteSteps) :
            LET e == RemoteSteps[q]
            IN  /\ e.slot = (q - 1) \div 2
                /\ e.kind = IF q % 2 = 1 THEN "render" ELSE "copy"
                /\ e.prog = IF q % 2 = 1 THEN "ssh" ELSE "scp"
                /\ q < Len(RemoteSteps) => e.status = "success"
                /\ e.status # "success" => result = "Err"

\* C10, its case: the copy of the second slot has failed with a third slot
\* still to do, and the run is over.
C10_Witness ==
    /\ rrd.target = Remote
    /\ pc = "exited"
    /\ Len(commands) >= 3
    /\ Len(RemoteSteps) = 4
    /\ RemoteSteps[4].kind = "copy"
    /\ RemoteSteps[4].status = "failure"

\* The scratch file of the remote host.
ScratchPath == <<"/", "tmp", "/", "cgg-out", ".", "png">>

\* The caller's file name for slot i of n: the name itself for one slot,
\* _<i+1> before its last '.' for more.
FinalName(i, n) ==
    LET name == cfg.output
        dots == {k \in 1..Len(name) : name[k] = "."}
    IN  IF n = 1 \/ dots = {} THEN name
        ELSE SubSeq(name, 1, Max(dots) - 1) \o <<"_">> \o to_string(i + 1)
                \o SubSeq(name, Max(dots), Len(name))

\* Every name the caller's file can go by in a run of n slots.
CallerNames(n) == {cfg.output} \cup {FinalName(i, n) : i \in 0..(n - 1)}

\* C11: on a remote target the output argument of every compiled command,
\* and of every render started, is /tmp/cgg-out.png; the caller's file name
\* is in no command, and is only the destination of the copy of its slot,
\* whose source is <user>@<host>:/tmp/cgg-out.png.
C11_RemoteScratchPath ==
    rrd.target = Remote =>
        LET n     == Len(rrd.graph_args.args)
            names == CallerNames(n)
            from  == unwrap(rrd.username) \o <<"@">> \o unwrap(rrd.hostname)
                        \o <<":">> \o ScratchPath
        IN  /\ \A k \in 1..Len(commands) :
                  /\ commands[k][2] = ScratchPath
                  /\ \A j \in 1..Len(commands[k]) : commands[k][j] \notin names
            /\ \A k \in 1..Len(executed) :
                  LET e == executed[k]
                  IN  /\ e.kind = "render" =>
                            /\ e.args[4] = ScratchPath
                            /\ \A j \in 1..Len(e.args) : e.args[j] \notin names
                      /\ e.kind = "copy" => e.args = <<from, FinalName(e.slot, n)>>

\* C11, its case: a remote run of two slots or more has copied the image of
\* its second slot back.
C11_Witness ==
    /\ rrd.target = Remote
    /\ Len(commands) >= 2
    /\ \E k \in 1..Len(executed) :
          /\ executed[k].kind = "copy"
          /\ executed[k].slot = 1
          /\ executed[k].status = "success"

\* C12: whatever the locator, the directory, the output file name, the
\* allow-list, max_processes and the exit statuses of the processes started,
\* a run whose configuration parsed ends with Ok or Err returned, never by
\* a panic.
C12_NeverAborts ==
    (cfg.config_ok /\ pc \in {"ended", "exited"}) => result \in {"Ok", "Err"}

\* C13: filter_processes returns the list it is given where there is no
\* allow-list; with an allow-list it returns, in the order given, exactly
\* the names that are equal as whole strings to an entry of the allow-list;
\* an entry equal to no name adds nothing, and the call returns Ok.
C13_FilterExact ==
    pc = "returned" =>
        LET processes == hist.calls[1][2]
            allow     == hist.calls[1][3]
            kept      == {k \in 1..Len(processes) :
                             \E a \in 1..Len(unwrap(allow)) : unwrap(allow)[a] = processes[k]}
            nth(j)    == CHOOSE k \in kept : Cardinality({q \in kept : q < k}) = j - 1
        IN  /\ ~is_err(ret)
            /\ Len(allow) = 0 => ret[1] = processes
            /\ Len(allow) = 1 =>
                  /\ Len(ret[1]) = Cardinality(kept)
                  /\ \A j \in 1..Len(ret[1]) : ret[1][j] = processes[nth(j)]

\* C13, its case: of firefox, rust analyzer and fire, the allow-list rust,
\* fire keeps fire alone.
C13_Witness ==
    /\ pc = "returned"
    /\ hist.calls[1][1] = "filter_processes"
    /\ hist.calls[1][2] = << <<"firefox">>, <<"rust", " ", "analyzer">>, <<"fire">> >>
    /\ hist.calls[1][3] = Some(<< <<"rust">>, <<"fire">> >>)
    /\ ret = Ok(<< <<"fire">> >>)

\* C14 as stated: the processes plugin returns an error, and adds no slot,
\* whenever the names found, after the allow-list is applied, are none.
C14_EmptyResultFails ==
    \A x \in 1..Len(hist.plugins) :
        LET h == hist.plugins[x]
        IN  (h.plugin = Processes /\ env.dir_ok /\ Len(Drawn) = 0)
            => h.status = "Err" /\ h.after = h.before

\* C14: the processes plugin returns an error, and adds no slot, whenever
\* no processes-<name> entry is found under the input path; where entries
\* are found and the allow-list keeps none of them it returns Ok, and adds
\* no slot either.
C14_NothingFoundFails ==
    \A x \in 1..Len(hist.plugins) :
        LET h == hist.plugins[x]
        IN  (h.plugin = Processes /\ env.dir_ok) =>
               /\ Len(Discovered) = 0 => h.status = "Err" /\ h.after = h.before
               /\ (Len(Discovered) > 0 /\ Len(Drawn) = 0)
                     => h.status = "Ok" /\ h.after = h.before

\* C14, its case: the directory lists, holds no process, and the plugin has
\* returned its error after the memory plugin had added its slot.
C14_Witness ==
    /\ Len(hist.plugins) = 2
    /\ hist.plugins[2].plugin = Processes
    /\ env.dir_ok
    /\ Len(Discovered) = 0
    /\ hist.plugins[2].status = "Err"
    /\ Len(hist.plugins[2].after) = 1
    /\ pc = "exited"

\* C15: where the directory holds processes and the allow-list is equal to
\* none of them, the processes plugin adds no slot; in a run of the
\* processes plugin alone no command is compiled, no renderer or copy is
\* started, no file is written and the exit status is 0.
C15_NoMatchNoOutput ==
    \A x \in 1..Len(hist.plugins) :
        LET h == hist.plugins[x]
        IN  (/\ h.plugin = Processes
             /\ env.dir_ok
             /\ Len(Discovered) > 0
             /\ Len(Drawn) = 0)
            => /\ h.status = "Ok"
               /\ h.after = h.before
               /\ cfg.plugins = <<Processes>> =>
                     /\ Len(rrd.graph_args.args) = 0
                     /\ Len(commands) = 0
                     /\ \A k \in 1..Len(executed) : executed[k].kind = "ls"
                     /\ files = {}
                     /\ result \in {"none", "Ok"}
                     /\ pc = "exited" => exit_code = 0

\* C15, its case: a run of the processes plugin on a directory of three
\* processes, none in the allow-list, has exited.
C15_Witness ==
    /\ pc = "exited"
    /\ cfg.plugins = <<Processes>>
    /\ env.dir_ok
    /\ Len(Discovered) = 3
    /\ is_some(unwrap(cfg.processes).processes_to_draw)
    /\ Len(Drawn) = 0
    /\ exit_code = 0
    /\ files = {}

\* A text of white space only.
Blank(s) == \A k \in 1..Len(s) : s[k] \in {" ", LF, "\t"}

\* The first token of a legend name: from its first character that is not
\* white space up to the next white space.
LeadToken(s) ==
    LET text  == {k \in 1..Len(s) : s[k] \notin {" ", LF, "\t"}}
        b     == CHOOSE k \in text : \A q \in text : k <= q
        stops == {k \in b..Len(s) : k = Len(s) \/ (k + 1) \notin text}
        e     == CHOOSE k \in stops : \A q \in stops : k <= q
    IN  SubSeq(s, b, e)

\* What a recorded call asks to be drawn: push as it is called,
\* with_process_rss for the file ps_rss.rrd of the process, thickness 3.
SeriesOf(c) ==
    IF c[1] = "push"
    THEN [legend_name |-> c[2].legend_name, color |-> c[2].color,
          thickness |-> c[2].thickness, path |-> c[2].path]
    ELSE [legend_name |-> c[2].process, color |-> c[2].color, thickness |-> 3,
          path |-> Under(rrd.input_dir, <<"processes-">> \o c[2].process
                                           \o <<"/", "ps_rss", ".", "rrd">>)]

\* The series of the calls that drew one, in the order of the calls.
Pushed ==
    LET drew(c) == c[1] \in {"push", "with_process_rss"}
                      /\ ~Blank(SeriesOf(c).legend_name)
        calls   == SelectSeq(hist.calls, drew)
    IN  [q \in 1..Len(calls) |-> SeriesOf(calls[q])]

\* All strings of the accumulator, slot after slot.
Strings == Concat(rrd.graph_args.args)

HasQuote(s) == \E k \in 1..Len(s) : s[k] = QUOTE

\* C16: the DEF argument of every series is DEF:<name>=<path>:value:AVERAGE
\* on a local target and DEF:<name>="<path>":value:AVERAGE on a remote one:
\* quotes around the path exactly on a remote target, value:AVERAGE always.
C16_DefSyntax ==
    /\ Len(Strings) = 2 * Len(Pushed)
    /\ \A q \in 1..Len(Pushed) :
          LET d    == Strings[2 * q - 1]
              head == <<"DEF", ":">> \o LeadToken(Pushed[q].legend_name) \o <<"=">>
              tail == <<":", "value", ":", "AVERAGE">>
          IN  /\ rrd.target = Local => d = head \o Pushed[q].path \o tail
              /\ rrd.target = Remote
                    => d = head \o <<QUOTE>> \o Pushed[q].path \o <<QUOTE>> \o tail
              /\ HasQuote(d) <=> rrd.target = Remote
              /\ SubSeq(d, Len(d) - 3, Len(d)) = tail

\* C16, its case: on a remote target a path with spaces in it has been
\* written into a DEF argument, in quotes.
C16_Witness ==
    /\ rrd.target = Remote
    /\ Len(Pushed) = 2
    /\ Pushed[2].legend_name = <<"rust", " ", "language", " ", "server">>
    /\ Len(Strings) = 4
    /\ HasQuote(Strings[3])

\* C17: on either target the name in the DEF and in the LINE argument of a
\* series is the first token of its legend name between white space, and
\* the LINE argument is LINE<thickness>:<name><color>:"<legend name>", the
\* legend name whole; with_process_rss draws the file
\* <path>/processes-<name>/ps_rss.rrd with thickness 3.
C17_LineSyntax ==
    /\ Len(Strings) = 2 * Len(Pushed)
    /\ \A q \in 1..Len(Pushed) :
          LET p    == Pushed[q]
              name == LeadToken(p.legend_name)
              def  == Strings[2 * q - 1]
              line == Strings[2 * q]
          IN  /\ SubSeq(def, 1, 2 + Len(name) + 1) = <<"DEF", ":">> \o name \o <<"=">>
              /\ line = <<"LINE">> \o to_string(p.thickness) \o <<":">> \o name
                           \o p.color \o <<":", QUOTE>> \o p.legend_name \o <<QUOTE>>
              /\ def = ExpectedDef(rrd.target, name, p.path)

\* C17, its case: with_process_rss has drawn "rust language server" after a
\* push of a legend name that begins with a space.
C17_Witness ==
    /\ Len(hist.calls) = 2
    /\ hist.calls[1][1] = "push"
    /\ hist.calls[1][2].legend_name = <<" ", "rust", " ", "analyzer">>
    /\ hist.calls[2][1] = "with_process_rss"
    /\ Len(Strings) = 4
    /\ Strings[4][2] = "3"

\* C18: for every legend name, colour, thickness and path push accepts,
\* reading back the DEF and LINE strings it made by their syntax gives the
\* first token of the legend name as the name of both, and the colour, the
\* thickness and the legend name that were pushed.
C18_RoundTrip ==
    (pc = "returned" /\ ~panicked(ret)) =>
        LET s    == hist.calls[1][2]
            def  == parse_def(value(ret)[1])
            line == parse_line(value(ret)[2])
        IN  /\ def.name = LeadToken(s.legend_name)
            /\ line.name = LeadToken(s.legend_name)
            /\ line.color = s.color
            /\ line.thickness = to_string(s.thickness)
            /\ line.legend = s.legend_name

\* The name a DEF argument binds: what it holds between "DEF:" and its
\* first '='.
BoundName(d) ==
    LET eqs == {k \in 3..Len(d) : d[k] = "="}
    IN  SubSeq(d, 3, (CHOOSE k \in eqs : \A q \in eqs : k <= q) - 1)

\* C19: in no slot do two DEF arguments bind the same name, the series of
\* two legend names with the same first token included.
C19_NoNameCollision ==
    \A j \in 1..Len(rrd.graph_args.args) :
        LET slot == rrd.graph_args.args[j]
        IN  \A a, b \in 1..(Len(slot) \div 2) :
                a # b => BoundName(slot[2 * a - 1]) # BoundName(slot[2 * b - 1])

\* The output path of the command of slot i of n.
OutputPath(i, n) == IF rrd.target = Remote THEN ScratchPath ELSE FinalName(i, n)

\* Every compiled command is graph, the output path, the given common
\* arguments and the strings of its own slot, and holds no string of
\* another slot.
CommandsAre(common) ==
    LET slots == rrd.graph_args.args
        n     == Len(slots)
    IN  \A k \in 1..Len(commands) :
            /\ commands[k] = << <<"graph">>, OutputPath(k - 1, n)>> \o common \o slots[k]
            /\ SubSeq(commands[k], 3, 2 + Len(common)) = SubSeq(commands[1], 3, 2 + Len(common))
            /\ \A j \in 1..n : j # k =>
                  \A x \in 1..Len(slots[j]) :
                      \A y \in 1..Len(commands[k]) : commands[k][y] # slots[j][x]

\* C20 as stated: every compiled command is graph, the output path,
\* -w <width> -h <height> --start <epoch> --end <epoch>, then the strings of
\* its own slot; the common arguments are the same in all commands and no
\* command holds a string of another slot.
C20_WidthFirst ==
    CommandsAre(<< <<"-w">>, to_string(cfg.width), <<"-h">>, to_string(cfg.height),
                   <<"--start">>, to_string(cfg.start), <<"--end">>, to_string(cfg.end)>>)

\* C20: every compiled command is graph, the output path,
\* --start <epoch> --end <epoch> -w <width> -h <height>, then the strings of
\* its own slot; the common arguments are the same in all commands and no
\* command holds a string of another slot.
C20_StartFirst ==
    CommandsAre(<< <<"--start">>, to_string(cfg.start), <<"--end">>, to_string(cfg.end),
                   <<"-w">>, to_string(cfg.width), <<"-h">>, to_string(cfg.height)>>)

\* C20, its case: a local run has compiled the commands of three slots and
\* run them all.
C20_Witness ==
    /\ rrd.target = Local
    /\ Len(commands) = 3
    /\ Len(executed) = 3
    /\ result = "Ok"

\* C21: for "last <N> <unit>" and "last <unit>" (N = 1), the unit in any
\* case and number, parse_timespan returns Ok(start, end) with end = now,
\* start <= end and end - start = N times the seconds of the unit; for a
\* text that does not begin with "last " or names an unknown unit it
\* returns an error.
C21_TimespanExact ==
    pc = "returned" =>
        /\ cfg.shape \in {"last_n_unit", "last_unit"} =>
              /\ ~panicked(ret)
              /\ ~is_err(value(ret))
              /\ LET r == value(ret)[1]
                 IN  /\ r.end = U64(env.now)
                     /\ ~r.start.wrapped
                     /\ r.start.n <= env.now
                     /\ env.now - r.start.n = cfg.n * cfg.seconds
        /\ cfg.shape \in {"not_last", "unknown_unit"} =>
              /\ ~panicked(ret)
              /\ is_err(value(ret))

\* The renders among the given processes.
Renders(procs) ==
    LET is_render(e) == e.kind = "render"
    IN  SelectSeq(procs, is_render)

\* The step in which exec_local or exec_remote has compiled its commands.
Compiled == pc = "exec" /\ pc' \in {"exec_local", "exec_remote_ssh"}

\* What one step of a run may do to the commands and to the processes.
OneByOneInOrder ==
    /\ Compiled =>
          /\ Len(commands') = Len(rrd.graph_args.args)
          /\ \A k \in 1..Len(commands') :
                LET c    == commands'[k]
                    slot == rrd.graph_args.args[k]
                IN  /\ Len(c) = 2 + Len(rrd.common_args) + Len(slot)
                    /\ SubSeq(c, Len(c) - Len(slot) + 1, Len(c)) = slot
    /\ pc \in {"exec_local", "exec_remote_ssh", "exec_remote_scp"} =>
          /\ Len(executed') <= Len(executed) + 1
          /\ SubSeq(executed', 1, Len(executed)) = executed
          /\ UNCHANGED commands
    /\ Len(Renders(executed')) > Len(Renders(executed)) =>
          LET e == executed'[Len(executed')]
          IN  /\ e.kind = "render"
              /\ e.slot = Len(Renders(executed))
              /\ e.slot < Len(commands)
              /\ SubSeq(e.args, Len(e.args) - Len(commands[e.slot + 1]) + 1, Len(e.args))
                    = commands[e.slot + 1]
              /\ \A k \in 1..Len(executed) : executed[k].status = "success"

\* C22: compiling gives as many commands as the accumulator has slots, the
\* i-th ending in the strings of slot i; a step of the run starts at most
\* one process, and a render it starts is that of the slot after the last
\* one rendered, started once, with the compiled command of that slot, and
\* only after every process started before it has exited successfully.
C22_OneByOneInOrder == [][OneByOneInOrder]_vars

\* C22, its case: the commands of two slots have been compiled and both
\* rendered remotely, the second after the first was copied back.
C22_Witness ==
    /\ rrd.target = Remote
    /\ Len(commands) = 2
    /\ Len(Renders(executed)) = 2
    /\ Len(RemoteSteps) = 4
    /\ result = "Ok"

\* What one call does to the slots of the accumulator.
AppendOnly ==
    LET a    == rrd.graph_args.args
        b    == rrd'.graph_args.args
        call == hist'.calls[Len(hist'.calls)]
        last == IF Len(a) = 0 THEN <<>> ELSE a[Len(a)]
    IN  Len(hist'.calls) > Len(hist.calls) =>
            /\ Len(b) >= Len(a)
            /\ \A k \in 1..Len(a) :
                  /\ Len(b[k]) >= Len(a[k])
                  /\ SubSeq(b[k], 1, Len(a[k])) = a[k]
                  /\ k < Len(b) => b[k] = a[k]
            /\ call[1] = "new_graph" => b = Append(a, <<>>)
            /\ call[1] = "push" =>
                  IF pc' = "acc"
                  THEN /\ Len(b) = Max({Len(a), 1})
                       /\ Len(b[Len(b)]) = Len(last) + 2
                       /\ SubSeq(b[Len(b)], 1, Len(last)) = last
                  ELSE b = a

\* C23: over any sequence of new_graph and push calls the number of slots
\* never decreases; new_graph adds exactly one empty slot at the end and
\* changes no other slot; push changes the last slot only (the slot it
\* opens where there is none) and only by two strings added at its end; the
\* order of the slots and of the strings of a slot never changes.
C23_AppendOnly == [][AppendOnly]_vars

\* C23, its case: two slots, the first left with its two strings while the
\* second was opened by new_graph and filled by two pushes.
C23_Witness ==
    /\ pc = "acc"
    /\ Len(rrd.graph_args.args) = 2
    /\ Len(rrd.graph_args.args[1]) = 2
    /\ Len(rrd.graph_args.args[2]) = 4
    /\ hist.calls[2] = <<"new_graph">>
    /\ hist.calls[4][1] = "push"

\* The LINE argument is drawn in the colour.
HasColour(line, color) ==
    \E k \in 1..(Len(line) - 1) : SubSeq(line, k, k + 1) = color

\* C24: in every slot of the accumulator, whatever plugins have run and in
\* whichever order, the series at position i of the slot (its LINE argument
\* is string 2i of the slot) is drawn in the i-th colour of the palette, so
\* that no two series of a slot share a colour.
C24_PositionColour ==
    \A x \in 1..Len(rrd.graph_args.args) :
        LET slot == rrd.graph_args.args[x]
        IN  \A i \in 1..(Len(slot) \div 2) :
                /\ i <= Len(COLORS)
                /\ HasColour(slot[2 * i], COLORS[i])

\* C25: the processes plugin, entered on an accumulator of s >= 0 slots
\* with n processes to draw (fewer than the palette has colours) and m >= 1
\* per image, leaves the s slots as they were and ends with s + ceil(n / m)
\* slots, chunk j of the processes in slot s + j.
C25_ProcessesAfterOthers ==
    \A x \in 1..Len(hist.plugins) :
        LET h == hist.plugins[x]
        IN  (/\ h.plugin = Processes
             /\ env.dir_ok
             /\ unwrap(cfg.processes).max_processes >= 1
             /\ Len(Drawn) > 0
             /\ Len(Drawn) < Len(COLORS))
            => LET m == unwrap(cfg.processes).max_processes
                   n == Len(Drawn)
                   s == Len(h.before)
                   c == CHOOSE c \in 1..n : c * m >= n /\ (c - 1) * m < n
               IN  /\ h.status = "Ok"
                   /\ Len(h.after) = s + c
                   /\ SubSeq(h.after, 1, s) = h.before
                   /\ \A j \in 0..(c - 1) : h.after[s + j + 1] = ExpectedProcessSlot(j, m)

\* The locator of the same path on the other target.
TwinInput ==
    IF rrd.target = Local THEN <<"u", "@", "h", ":">> \o cfg.input ELSE rrd.input_dir

\* The DEF argument with its path in double quotes.
Quoted(d) ==
    LET eq == CHOOSE k \in 1..Len(d) : d[k] = "=" /\ \A q \in 1..(k - 1) : d[q] # "="
        n  == Len(d)
    IN  SubSeq(d, 1, eq) \o <<QUOTE>> \o SubSeq(d, eq + 1, n - 4) \o <<QUOTE>>
            \o SubSeq(d, n - 3, n)

\* C26: where the commands of a run have been compiled and the same builder
\* calls and plugins, with the same configuration and the same names and
\* files found, get through on the same path of the other target, both
\* targets give the same number of slots and of commands, and command i is
\* the same on both but for its output argument (locally the name of the
\* caller, numbered where there are several slots; remotely the scratch
\* path) and for the path of each DEF argument, in double quotes remotely;
\* the file slot i is copied back to remotely is the local output of slot i.
C26_Symmetry ==
    (pc \in {"exec_local", "exec_remote_ssh"} /\ index = 0) =>
        LET twin == with_plugins(run_builder(cfg, TwinInput), cfg, env, 1)
        IN  twin.status = "Ok" =>
              LET l  == IF rrd.target = Local THEN rrd ELSE twin.self
                  r  == IF rrd.target = Local THEN twin.self ELSE rrd
                  lc == build_rrdtool_args(l)
                  rc == build_rrdtool_args(r)
              IN  /\ with_plugins(run_builder(cfg, cfg.input), cfg, env, 1).self = rrd
                  /\ l.target = Local /\ r.target = Remote
                  /\ l.input_dir = r.input_dir
                  /\ ~panicked(lc) /\ ~panicked(rc)
                  /\ commands = IF rrd.target = Local THEN value(lc) ELSE value(rc)
                  /\ Len(l.graph_args.args) = Len(r.graph_args.args)
                  /\ Len(value(lc)) = Len(value(rc))
                  /\ \A i \in 1..Len(value(lc)) :
                        LET a == value(lc)[i]
                            b == value(rc)[i]
                        IN  /\ Len(a) = Len(b)
                            /\ a[1] = b[1]
                            /\ a[2] = value(get_output_filename(l, i - 1))
                            /\ b[2] = <<"/", "tmp", "/", "cgg-out", ".", "png">>
                            /\ value(get_output_filename(r, i - 1)) = a[2]
                            /\ \A k \in 3..Len(a) :
                                  b[k] = IF a[k][1] = "DEF" THEN Quoted(a[k]) ELSE a[k]

\* C26, its case: a remote run of both plugins whose three slots have been
\* compiled into three commands.
C26_Witness ==
    /\ pc = "exec_remote_ssh"
    /\ index = 0
    /\ rrd.target = Remote
    /\ Len(cfg.plugins) = 2
    /\ Len(commands) = 3
    /\ with_plugins(run_builder(cfg, TwinInput), cfg, env, 1).status = "Ok"

\* A plugin of the run has failed.
SomePluginFailed == \E x \in 1..Len(hist.plugins) : hist.plugins[x].status # "Ok"

\* C27: with_plugins enters the plugins one at a time in the order of the
\* configuration, each on what the one before has left; where a plugin
\* fails, with_plugins returns its error, no later plugin is entered, exec
\* is not reached, and neither a renderer nor a copy is started: the only
\* processes of the run are the remote listings of the plugins entered.
C27_PluginErrorStops ==
    /\ Len(hist.plugins) <= Len(cfg.plugins)
    /\ \A x \in 1..Len(hist.plugins) :
          LET h == hist.plugins[x]
          IN  /\ h.plugin = cfg.plugins[x]
              /\ x < Len(hist.plugins) =>
                    /\ h.status = "Ok"
                    /\ hist.plugins[x + 1].before = h.after
              /\ h.status # "Ok" =>
                    /\ x = Len(hist.plugins)
                    /\ plugin_i = x - 1
                    /\ pc \in {"ended", "exited"}
                    /\ result = h.status
                    /\ pc = "exited" => exit_code # 0
                    /\ Len(commands) = 0
                    /\ files = {}
                    /\ \A k \in 1..Len(executed) :
                          /\ executed[k].kind = "ls"
                          /\ rrd.target = Remote
    /\ pc \in {"exec", "exec_local", "exec_remote_ssh", "exec_remote_scp"} =>
          /\ Len(hist.plugins) = Len(cfg.plugins)
          /\ ~SomePluginFailed

\* C27, its case: the first of two plugins has listed the remote directory
\* and failed; the second was not entered and the run has exited.
C27_Witness ==
    /\ Len(cfg.plugins) = 2
    /\ Len(hist.plugins) = 1
    /\ hist.plugins[1].status = "Err"
    /\ rrd.target = Remote
    /\ Len(executed) = 1
    /\ executed[1].prog = "ssh"
    /\ pc = "exited"

\* C27 as first stated: where a plugin fails, no renderer, ssh or scp is
\* started in the run at all.
C27_NoProcessAtAll ==
    SomePluginFailed => \A k \in 1..Len(executed) : executed[k].prog \notin {"rrdtool", "ssh", "scp"}

\* C28: in a remote run, all of whose slots are rendered into the one
\* scratch file, a copy is started only right after the successful render of
\* its own slot, the scratch file then holding the image of that slot, and
\* every output file written holds the image of the slot it is named for:
\* slot i is copied back after render i and before render i + 1.
C28_CopyBackOwnImage ==
    rrd.target = Remote =>
        /\ \A k \in 1..Len(executed) :
              executed[k].kind = "copy" =>
                  /\ k > 1
                  /\ executed[k - 1].kind = "render"
                  /\ executed[k - 1].status = "success"
                  /\ executed[k - 1].slot = executed[k].slot
                  /\ executed[k - 1].args[4] = unwrap(rrd.remote_filename)
                  /\ executed[k].args[2] = value(get_output_filename(rrd, executed[k].slot))
                  /\ executed[k].status = "success" =>
                        [name |-> executed[k].args[2], slot |-> executed[k].slot] \in files
        /\ \A k \in 2..Len(executed) :
              (executed[k].kind = "render" /\ executed[k].slot > 0) =>
                  /\ executed[k - 1].kind = "copy"
                  /\ executed[k - 1].status = "success"
                  /\ executed[k - 1].slot = executed[k].slot - 1
        /\ pc = "exec_remote_scp" => scratch = Some(index)
        /\ \A f \in files :
              /\ f.slot \in 0..(Len(commands) - 1)
              /\ f.name = value(get_output_filename(rrd, f.slot))
              /\ Successful("render", f.slot)
              /\ Successful("copy", f.slot)

\* C28, its case: a remote run of three slots has ended, each of its three
\* output files holding the image of its own slot.
C28_Witness ==
    /\ rrd.target = Remote
    /\ Len(commands) = 3
    /\ result = "Ok"
    /\ Cardinality(files) = 3
    /\ \A i \in 0..2 : [name |-> value(get_output_filename(rrd, i)), slot |-> i] \in files

\* C29: two runs against one host, their renders and copies interleaved in
\* any order: every output file a run has copied back holds the image that
\* the same run rendered for the slot the file is named for.
C29_RunsIndependent ==
    \A f \in files :
        /\ f.image.run = f.run
        /\ f.name = value(get_output_filename(rrd[f.run], f.image.slot))

\* C30: no plugin looks up a colour outside the palette.  The processes
\* plugin panics only on its own check of the number of processes, which
\* comes before any lookup, so that every index it uses is below the size
\* of the palette whatever max_processes is; the memory plugin, whatever
\* list of categories it is given (categories may repeat), never panics on
\* the index of a category.
C30_PaletteIndexInRange ==
    \A x \in 1..Len(hist.plugins) :
        LET h == hist.plugins[x]
        IN  /\ (h.plugin = Processes /\ h.status = "Panic") => Len(Drawn) >= Len(COLORS)
            /\ h.plugin = Memory => h.status # "Panic"

===========================================================================
